---------------------------- MODULE Spec2Model ----------------------------
(***************************************************************************)
(* A model of the 2D canvas renderer: the layer-group draw list of         *)
(* RenderCanvas, the transform cache of Drawable, the Silhouette oracle,   *)
(* the convex-hull extractor and the touch / colour queries built on them. *)
(*                                                                         *)
(* Numbers that are doubles in the program are exact rationals <<n, d>>    *)
(* here (d > 0, lowest terms); directions are multiples of 90 degrees, for *)
(* which sine and cosine are taken as the exact values -1, 0, 1.           *)
(***************************************************************************)
EXTENDS Integers, Sequences, FiniteSets, TLC

VARIABLES
    groupOrdering,    \* RenderCanvas._groupOrdering
    layerGroups,      \* RenderCanvas._layerGroups: name -> [groupIndex, drawListOffset]
    drawList,         \* RenderCanvas._drawList
    allDrawables,     \* RenderCanvas._allDrawables: id -> Drawable
    nextDrawableId,   \* RenderCanvas._nextDrawableId
    createdIn,        \* history: the group each id was created in
    lastCall,         \* history: the last draw-list call and what it returned
    silhouette,       \* a Silhouette: _width, _height, _colorData and the constructor's overrides
    silRet,           \* history: the last Silhouette query and what it returned
    drawable,         \* a Drawable: its logical state, dirty flags and cached matrices
    drwRet,           \* history: the last Drawable call and what it returned
    backgroundColor3b, \* RenderCanvas._backgroundColor3b
    colorRet,         \* history: the last sampleColor3b call and what it returned
    hullDrawable,     \* a Drawable wearing a BitmapSkin, as the hull extractor sees it
    hullRet,          \* history: the last bounds call and what it returned
    touchScene,       \* RenderCanvas._allDrawables of a two-drawable scene: id -> Drawable
    touchRet,         \* history: the last isTouchingDrawables call and what it returned
    readyDrawable,    \* a Drawable whose hull points a caller supplies
    readyRet,         \* history: the last call on it, what it did, and whether a hull is on hand
    pickScene,        \* RenderCanvas._allDrawables of the scene pick looks at: id -> Drawable
    pickRet,          \* history: the last pick call, its candidates, hit counts and result
    missLive,         \* the ids RenderCanvas._allDrawables holds, after some were destroyed
    missScene,        \* RenderCanvas._allDrawables of that scene: id -> Drawable
    missRet,          \* history: the last call, the id it named, and whether it threw
    skinTable,        \* RenderCanvas._allSkins: skin id -> skin object and its pending SVG load
    nextSkinId,       \* RenderCanvas._nextSkinId
    skinRet,          \* history: the last skin call, its skin id and the content supplied
    altSkins,         \* RenderCanvas._allSkins: skin id -> type, and whether the renderer listens to it
    altNextSkinId,    \* RenderCanvas._nextSkinId
    altScene,         \* RenderCanvas._allDrawables of this scene: id -> Drawable
    altRet            \* history: the last call, the skin it named, and whether that skin emitted WasAltered

dlVars == <<groupOrdering, layerGroups, drawList, allDrawables, nextDrawableId, createdIn, lastCall>>
silVars == <<silhouette, silRet>>
drwVars == <<drawable, drwRet>>
colVars == <<backgroundColor3b, colorRet>>
hullVars == <<hullDrawable, hullRet>>
touchVars == <<touchScene, touchRet>>
readyVars == <<readyDrawable, readyRet>>
pickVars == <<pickScene, pickRet>>
missVars == <<missLive, missScene, missRet>>
skinVars == <<skinTable, nextSkinId, skinRet>>
altVars == <<altSkins, altNextSkinId, altScene, altRet>>

vars == <<dlVars, silVars, drwVars, colVars, hullVars, touchVars, readyVars, pickVars, missVars, skinVars, altVars>>

\* Values a call can return: an integer, a boolean, null, undefined, or an exception.
RetInt(n) == [kind |-> "int", val |-> n]
RetBool(b) == [kind |-> "bool", val |-> IF b THEN 1 ELSE 0]
RetNull == [kind |-> "null", val |-> 0]
RetUndefined == [kind |-> "undefined", val |-> 0]
RetThrows == [kind |-> "throws", val |-> 0]

\* A JavaScript number that is an integer or Infinity.
Num(n) == [inf |-> FALSE, n |-> n]
Infinity == [inf |-> TRUE, n |-> 0]

-----------------------------------------------------------------------------
(* Bounds of the model.                                                    *)

MaxDrawables == 2
MaxSilhouettePixels == 4
MaxSampled == 2

-----------------------------------------------------------------------------
(* Exact rational arithmetic for the program's doubles: <<n, d>>, d > 0,   *)
(* in lowest terms.                                                        *)

RECURSIVE Gcd(_, _)
Gcd(a, b) == IF b = 0 THEN a ELSE Gcd(b, a % b)

Abs(n) == IF n < 0 THEN 0 - n ELSE n

R(n, d) ==
    LET s == IF d < 0 THEN 0 - 1 ELSE 1
        g == Gcd(Abs(n), Abs(d))
    IN  IF n = 0 THEN <<0, 1>> ELSE <<(s * n) \div g, (s * d) \div g>>

RI(n) == <<n, 1>>
RAdd(a, b) == R(a[1] * b[2] + b[1] * a[2], a[2] * b[2])
RSub(a, b) == R(a[1] * b[2] - b[1] * a[2], a[2] * b[2])
RMul(a, b) == R(a[1] * b[1], a[2] * b[2])
RDiv(a, b) == R(a[1] * b[2], a[2] * b[1])
RNeg(a) == <<0 - a[1], a[2]>>
RLt(a, b) == a[1] * b[2] < b[1] * a[2]
RLe(a, b) == a[1] * b[2] <= b[1] * a[2]
RMin(a, b) == IF RLe(a, b) THEN a ELSE b
RMax(a, b) == IF RLe(a, b) THEN b ELSE a
\* Math.floor, Math.ceil and the truncation toward zero behind `x % 1`
RFloor(a) == a[1] \div a[2]
RCeil(a) == 0 - ((0 - a[1]) \div a[2])
RTrunc(a) == IF a[1] < 0 THEN RCeil(a) ELSE RFloor(a)
\* x % 1: the remainder keeps the sign of x
RMod1(a) == RSub(a, RI(RTrunc(a)))

\* Storing a number into a Uint8ClampedArray: round to nearest, ties to
\* even, clamped to 0..255.
ToUint8Clamped(a) ==
    LET fl == RFloor(a)
        twice == RMul(RSub(a, RI(fl)), RI(2))
        rounded == IF RLt(twice, RI(1)) THEN fl
                   ELSE IF RLt(RI(1), twice) THEN fl + 1
                   ELSE IF fl % 2 = 0 THEN fl ELSE fl + 1
    IN  IF rounded < 0 THEN 0 ELSE IF rounded > 255 THEN 255 ELSE rounded

-----------------------------------------------------------------------------
(* Sequence helpers: Array.prototype.splice as the draw list uses it.      *)

Min2(a, b) == IF a <= b THEN a ELSE b
Max2(a, b) == IF a >= b THEN a ELSE b

\* list.splice(index, 1): remove the entry at 0-based index.
SpliceOut(list, index) ==
    [k \in 1..(Len(list) - 1) |-> IF k <= index THEN list[k] ELSE list[k + 1]]

\* list.splice(index, 0, x): insert x before 0-based index; an index past the
\* end is clamped to the length.
SpliceIn(list, index, x) ==
    LET at == Min2(index, Len(list))
    IN  [k \in 1..(Len(list) + 1) |->
            IF k <= at THEN list[k] ELSE IF k = at + 1 THEN x ELSE list[k - 1]]

\* Math.max, Math.min and + on numbers that are integers or Infinity.
MathMax(a, b) == IF a.inf \/ b.inf THEN Infinity ELSE Num(Max2(a.n, b.n))
MathMin(a, b) == IF a.inf THEN b ELSE IF b.inf THEN a ELSE Num(Min2(a.n, b.n))
MathAdd(a, b) == IF a.inf \/ b.inf THEN Infinity ELSE Num(a.n + b.n)

-----------------------------------------------------------------------------
(* The layer-group draw list of RenderCanvas.                              *)

\* The group names the host passes: the ordering it configures, a name that
\* is in no ordering, and a missing (falsy) name.
GroupOrderingInput == <<"background", "pen", "sprite">>
UnknownGroup == "nosuchgroup"
MissingGroup == ""
GroupInputs == {GroupOrderingInput[i] : i \in 1..Len(GroupOrderingInput)} \cup {UnknownGroup, MissingGroup}

ID_NONE == -1

\* !group || !hasOwnProperty(this._layerGroups, group), negated
KnownGroup(group) == group # MissingGroup /\ group \in DOMAIN layerGroups

\* The Drawable constructor followed by createDrawable's `drawable.skin = null`.
NewDrawable(id) == [id |-> id, visible |-> TRUE]

\* _endIndexForKnownLayerGroup: 0-based, non-inclusive
EndIndexForKnownLayerGroup(layerGroup) ==
    IF layerGroup.groupIndex = Len(groupOrdering) - 1
    THEN Len(drawList)
    ELSE layerGroups[groupOrdering[layerGroup.groupIndex + 2]].drawListOffset

\* A variant of _updateOffsets that moves the offset of the group itself too.
UpdateOffsetsFromGroup(delta, currentGroupOrderingIndex) ==
    [name \in DOMAIN layerGroups |->
        IF layerGroups[name].groupIndex >= currentGroupOrderingIndex
        THEN [layerGroups[name] EXCEPT !.drawListOffset = @ + delta]
        ELSE layerGroups[name]]

\* _updateOffsets: every later group's offset moves by delta (+1 add, -1 delete)
UpdateOffsets(delta, currentGroupOrderingIndex) ==
    [name \in DOMAIN layerGroups |->
        IF layerGroups[name].groupIndex > currentGroupOrderingIndex
        THEN [layerGroups[name] EXCEPT !.drawListOffset = @ + delta]
        ELSE layerGroups[name]]

\* The linear scan of destroyDrawable and setDrawableOrder: the first index in
\* [startIndex, endIndex) holding drawableID, or endIndex.
ScanIndex(drawableID, startIndex, endIndex) ==
    LET hits == {i \in startIndex..(endIndex - 1) :
                    i < Len(drawList) /\ drawList[i + 1] = drawableID}
    IN  IF hits = {} THEN endIndex
        ELSE CHOOSE i \in hits : \A j \in hits : i <= j

SetLayerGroupOrdering ==
    /\ groupOrdering = <<>>
    /\ groupOrdering' = GroupOrderingInput
    /\ layerGroups' = [name \in {GroupOrderingInput[i] : i \in 1..Len(GroupOrderingInput)} |->
            [groupIndex |-> (CHOOSE i \in 1..Len(GroupOrderingInput) : GroupOrderingInput[i] = name) - 1,
             drawListOffset |-> 0]]
    /\ lastCall' = [op |-> "setLayerGroupOrdering", id |-> ID_NONE, group |-> MissingGroup,
                    ret |-> RetUndefined]
    /\ UNCHANGED <<drawList, allDrawables, nextDrawableId, createdIn>>

\* _addToDrawList: the draw list and offsets after adding drawableID to group
AddToDrawList(drawableID, group) ==
    [list |-> SpliceIn(drawList, EndIndexForKnownLayerGroup(layerGroups[group]), drawableID),
     groups |-> UpdateOffsets(1, layerGroups[group].groupIndex)]

\* A variant of createDrawable that takes the next id before it looks at the
\* layer group.
CreateDrawableTakesIdFirst(group) ==
    /\ nextDrawableId < MaxDrawables
    /\ LET drawableID == nextDrawableId
       IN  IF ~KnownGroup(group)
           THEN /\ nextDrawableId' = nextDrawableId + 1
                /\ lastCall' = [op |-> "createDrawable", id |-> ID_NONE, group |-> group,
                                ret |-> RetUndefined]
                /\ UNCHANGED <<groupOrdering, layerGroups, drawList, allDrawables, createdIn>>
           ELSE LET added == AddToDrawList(drawableID, group)
                IN  /\ nextDrawableId' = nextDrawableId + 1
                    /\ allDrawables' = [id \in DOMAIN allDrawables \cup {drawableID} |->
                            IF id = drawableID THEN NewDrawable(drawableID) ELSE allDrawables[id]]
                    /\ drawList' = added.list
                    /\ layerGroups' = added.groups
                    /\ createdIn' = [id \in DOMAIN createdIn \cup {drawableID} |->
                            IF id = drawableID THEN group ELSE createdIn[id]]
                    /\ lastCall' = [op |-> "createDrawable", id |-> drawableID, group |-> group,
                                    ret |-> RetInt(drawableID)]
                    /\ UNCHANGED groupOrdering

CreateDrawable(group) ==
    IF ~KnownGroup(group)
    THEN /\ lastCall' = [op |-> "createDrawable", id |-> ID_NONE, group |-> group, ret |-> RetUndefined]
         /\ UNCHANGED <<groupOrdering, layerGroups, drawList, allDrawables, nextDrawableId, createdIn>>
    ELSE /\ nextDrawableId < MaxDrawables
         /\ LET drawableID == nextDrawableId
                added == AddToDrawList(drawableID, group)
            IN  /\ nextDrawableId' = nextDrawableId + 1
                /\ allDrawables' = [id \in DOMAIN allDrawables \cup {drawableID} |->
                        IF id = drawableID THEN NewDrawable(drawableID) ELSE allDrawables[id]]
                /\ drawList' = added.list
                /\ layerGroups' = added.groups
                /\ createdIn' = [id \in DOMAIN createdIn \cup {drawableID} |->
                        IF id = drawableID THEN group ELSE createdIn[id]]
                /\ lastCall' = [op |-> "createDrawable", id |-> drawableID, group |-> group, ret |-> RetInt(drawableID)]
                /\ UNCHANGED groupOrdering

DestroyDrawable(drawableID, group) ==
    IF ~KnownGroup(group)
    THEN /\ lastCall' = [op |-> "destroyDrawable", id |-> drawableID, group |-> group, ret |-> RetUndefined]
         /\ UNCHANGED <<groupOrdering, layerGroups, drawList, allDrawables, nextDrawableId, createdIn>>
    ELSE IF drawableID \notin DOMAIN allDrawables
    THEN \* drawable is undefined: drawable.dispose() throws a TypeError
         /\ lastCall' = [op |-> "destroyDrawable", id |-> drawableID, group |-> group, ret |-> RetThrows]
         /\ UNCHANGED <<groupOrdering, layerGroups, drawList, allDrawables, nextDrawableId, createdIn>>
    ELSE LET currentLayerGroup == layerGroups[group]
             endIndex == EndIndexForKnownLayerGroup(currentLayerGroup)
             index == ScanIndex(drawableID, currentLayerGroup.drawListOffset, endIndex)
         IN  /\ allDrawables' = [id \in DOMAIN allDrawables \ {drawableID} |-> allDrawables[id]]
             /\ IF index < endIndex
                THEN /\ drawList' = SpliceOut(drawList, index)
                     /\ layerGroups' = UpdateOffsets(-1, currentLayerGroup.groupIndex)
                ELSE UNCHANGED <<drawList, layerGroups>>
             /\ lastCall' = [op |-> "destroyDrawable", id |-> drawableID, group |-> group, ret |-> RetUndefined]
             /\ UNCHANGED <<groupOrdering, nextDrawableId, createdIn>>

\* The new index setDrawableOrder computes once drawableID is found at oldIndex.
NewOrderIndex(order, oldIndex, startIndex, endIndex, optIsRelative, optMin) ==
    LET newIndex0 == IF optIsRelative THEN MathAdd(order, Num(oldIndex)) ELSE order
        possibleMin == optMin + startIndex
        min == IF possibleMin >= startIndex /\ possibleMin < endIndex
               THEN possibleMin ELSE startIndex
    IN  MathMin(MathMax(newIndex0, Num(min)), Num(endIndex)).n

SetDrawableOrder(drawableID, order, group, optIsRelative, optMin) ==
    IF ~KnownGroup(group)
    THEN /\ lastCall' = [op |-> "setDrawableOrder", id |-> drawableID, group |-> group, ret |-> RetUndefined]
         /\ UNCHANGED <<groupOrdering, layerGroups, drawList, allDrawables, nextDrawableId, createdIn>>
    ELSE LET currentLayerGroup == layerGroups[group]
             startIndex == currentLayerGroup.drawListOffset
             endIndex == EndIndexForKnownLayerGroup(currentLayerGroup)
             oldIndex == ScanIndex(drawableID, startIndex, endIndex)
         IN  IF oldIndex < endIndex
             THEN IF order = Num(0)
                  THEN /\ lastCall' = [op |-> "setDrawableOrder", id |-> drawableID, group |-> group,
                                       ret |-> RetInt(oldIndex)]
                       /\ UNCHANGED <<groupOrdering, layerGroups, drawList, allDrawables, nextDrawableId, createdIn>>
                  ELSE LET newIndex == NewOrderIndex(order, oldIndex, startIndex, endIndex,
                                                    optIsRelative, optMin)
                       IN  /\ drawList' = SpliceIn(SpliceOut(drawList, oldIndex), newIndex, drawableID)
                           /\ lastCall' = [op |-> "setDrawableOrder", id |-> drawableID, group |-> group,
                                           ret |-> RetInt(newIndex)]
                           /\ UNCHANGED <<groupOrdering, layerGroups, allDrawables,
                                          nextDrawableId, createdIn>>
             ELSE /\ lastCall' = [op |-> "setDrawableOrder", id |-> drawableID, group |-> group, ret |-> RetNull]
                  /\ UNCHANGED <<groupOrdering, layerGroups, drawList, allDrawables, nextDrawableId, createdIn>>

\* The order and optMin arguments tried: moves back and forth by up to two
\* layers (or to the absolute orders 1 and 2), "go to front", and the no-op 0.
OrderInputs == {Num(0 - 1), Num(0), Num(1), Num(2), Infinity}
MinInputs == {0 - 1, 0, 1}
DrawableIdInputs == 0..(MaxDrawables - 1)

InitDrawList ==
    /\ groupOrdering = <<>>
    /\ layerGroups = <<>>
    /\ drawList = <<>>
    /\ allDrawables = <<>>
    /\ nextDrawableId = ID_NONE + 1
    /\ createdIn = <<>>
    /\ lastCall = [op |-> "constructor", id |-> ID_NONE, group |-> MissingGroup, ret |-> RetUndefined]

OnlyDrawList == UNCHANGED <<silVars, drwVars, colVars, hullVars, touchVars, readyVars, pickVars, missVars, skinVars, altVars>>

NextDrawList ==
    \/ SetLayerGroupOrdering /\ OnlyDrawList
    \/ \E group \in GroupInputs : CreateDrawable(group) /\ OnlyDrawList
    \/ \E drawableID \in DrawableIdInputs, group \in GroupInputs :
            DestroyDrawable(drawableID, group) /\ OnlyDrawList
    \/ \E drawableID \in DrawableIdInputs, order \in OrderInputs,
          group \in GroupInputs,
          optIsRelative \in BOOLEAN, optMin \in MinInputs :
            SetDrawableOrder(drawableID, order, group, optIsRelative, optMin) /\ OnlyDrawList

\* The index of a drawable id in the draw list (getDrawableOrder), 0-based; -1 if absent.
GetDrawableOrder(drawableID) ==
    IF \E k \in 1..Len(drawList) : drawList[k] = drawableID
    THEN (CHOOSE k \in 1..Len(drawList) :
            drawList[k] = drawableID /\ \A j \in 1..(k - 1) : drawList[j] # drawableID) - 1
    ELSE 0 - 1

\* C1: after any sequence of createDrawable, destroyDrawable and
\* setDrawableOrder calls, for every two layer groups A before B in the group
\* ordering, every drawable id created in A sits at a lower draw-list index
\* than every id created in B.
C1_PartitionInvariant ==
    \A i \in 1..Len(drawList), j \in 1..Len(drawList) :
        layerGroups[createdIn[drawList[i]]].groupIndex < layerGroups[createdIn[drawList[j]]].groupIndex
            => i < j

\* The calls that take a layer-group name.
GroupCalls == {"createDrawable", "destroyDrawable", "setDrawableOrder"}

\* C16: createDrawable, destroyDrawable and setDrawableOrder called with a
\* missing or unknown layer-group name change nothing: the draw list, every
\* group offset, the table of live drawables and the next drawable id stay as
\* they were, and createDrawable returns no id.
C16_UnknownGroupChangesNothing ==
    [][(lastCall'.op \in GroupCalls /\ ~KnownGroup(lastCall'.group))
        => /\ UNCHANGED <<drawList, layerGroups, allDrawables, nextDrawableId>>
           /\ lastCall'.op = "createDrawable" => lastCall'.ret = RetUndefined]_vars

\* Drawables exist and are listed, and the last call named no known group.
C16_Witness ==
    /\ lastCall.op \in GroupCalls
    /\ lastCall.group \in {UnknownGroup, MissingGroup}
    /\ groupOrdering # <<>>
    /\ drawList # <<>>
    /\ nextDrawableId < MaxDrawables

\* C23: setDrawableOrder(id, order, group, relative, min) moves id only
\* inside its own group's range: when it has found id, id afterwards sits at
\* or after the start of the group and before the start of the next group.
C23_ReorderStaysInGroup ==
    (lastCall.op = "setDrawableOrder" /\ lastCall.ret.kind = "int")
    => /\ layerGroups[lastCall.group].drawListOffset <= GetDrawableOrder(lastCall.id)
       /\ GetDrawableOrder(lastCall.id) < EndIndexForKnownLayerGroup(layerGroups[lastCall.group])

\* The start offset of the group after `group` in the ordering, or the
\* length of the draw list when `group` is the last one.
StartOfNextGroup(group) ==
    IF \E name \in DOMAIN layerGroups :
            layerGroups[name].groupIndex = layerGroups[group].groupIndex + 1
    THEN layerGroups[CHOOSE name \in DOMAIN layerGroups :
            layerGroups[name].groupIndex = layerGroups[group].groupIndex + 1].drawListOffset
    ELSE Len(drawList)

\* C24: createDrawable(group) inserts the new id at the start offset of the
\* next group (the list end for the last group), keeps the relative order of
\* the ids already listed, adds exactly 1 to the start offset of every later
\* group and leaves the offsets of group and of all earlier groups unchanged.
C24_CreateInsertsAtGroupEnd ==
    [][(lastCall'.op = "createDrawable" /\ lastCall'.ret.kind = "int")
        => /\ Len(drawList') = Len(drawList) + 1
           /\ drawList'[StartOfNextGroup(lastCall'.group) + 1] = lastCall'.id
           /\ \A k \in 1..Len(drawList) :
                  drawList[k] = drawList'[IF k <= StartOfNextGroup(lastCall'.group)
                                          THEN k ELSE k + 1]
           /\ \A name \in DOMAIN layerGroups :
                  layerGroups'[name].drawListOffset =
                      IF layerGroups[name].groupIndex > layerGroups[lastCall'.group].groupIndex
                      THEN layerGroups[name].drawListOffset + 1
                      ELSE layerGroups[name].drawListOffset]_vars

\* C24's case: a drawable created in a group that is not the last one while
\* a later group is populated, so that it is inserted before a listed id.
C24_Witness ==
    /\ lastCall.op = "createDrawable" /\ lastCall.ret.kind = "int"
    /\ Len(drawList) >= 2
    /\ GetDrawableOrder(lastCall.id) < Len(drawList) - 1
    /\ layerGroups[lastCall.group].drawListOffset < StartOfNextGroup(lastCall.group)

\* The number of draw-list entries created in a group before `group`.
EntriesOfEarlierGroups(group) ==
    Cardinality({k \in 1..Len(drawList) :
        layerGroups[createdIn[drawList[k]]].groupIndex < layerGroups[group].groupIndex})

\* C25: after setLayerGroupOrdering and any createDrawable, destroyDrawable
\* and setDrawableOrder calls, each group's drawListOffset is the number of
\* draw-list entries that belong to earlier groups, is at least 0 and at most
\* the draw-list length, and the offsets do not decrease along the ordering.
C25_OffsetsCountEarlierEntries ==
    \A group \in DOMAIN layerGroups :
        /\ layerGroups[group].drawListOffset = EntriesOfEarlierGroups(group)
        /\ 0 <= layerGroups[group].drawListOffset
        /\ layerGroups[group].drawListOffset <= Len(drawList)
        /\ \A later \in DOMAIN layerGroups :
               layerGroups[group].groupIndex < layerGroups[later].groupIndex
               => layerGroups[group].drawListOffset <= layerGroups[later].drawListOffset

\* drawableID is not in the draw-list range of the (known) group.
NotFoundInGroup(drawableID, group) ==
    ScanIndex(drawableID, layerGroups[group].drawListOffset,
              EndIndexForKnownLayerGroup(layerGroups[group]))
        = EndIndexForKnownLayerGroup(layerGroups[group])

\* list.indexOf(x), 0-based; -1 if absent.
IndexOf(list, x) ==
    IF \E k \in 1..Len(list) : list[k] = x
    THEN (CHOOSE k \in 1..Len(list) : list[k] = x /\ \A j \in 1..(k - 1) : list[j] # x) - 1
    ELSE 0 - 1

\* C26: setDrawableOrder with a known group returns null exactly when id is
\* not found inside the group's range, and then changes nothing; otherwise it
\* returns the index at which id sits in the draw list after the call, the
\* value getDrawableOrder(id) returns next.
C26_ReorderReturnsNewIndex ==
    [][(lastCall'.op = "setDrawableOrder" /\ KnownGroup(lastCall'.group))
        => IF NotFoundInGroup(lastCall'.id, lastCall'.group)
           THEN /\ lastCall'.ret = RetNull
                /\ UNCHANGED <<drawList, layerGroups, allDrawables, nextDrawableId>>
           ELSE /\ lastCall'.ret.kind = "int"
                /\ lastCall'.ret.val = IndexOf(drawList', lastCall'.id)]_vars

\* C17: destroyDrawable(id, group) with a known group in whose draw-list range
\* id is not found leaves the draw list, every group offset and the set of live
\* drawables unchanged, so every id in the draw list still refers to a live
\* drawable.
C17_NotFoundChangesNothing ==
    [][(/\ lastCall'.op = "destroyDrawable"
        /\ KnownGroup(lastCall'.group)
        /\ lastCall'.ret # RetThrows
        /\ \A k \in 1..Len(drawList) : drawList[k] \in DOMAIN allDrawables
        /\ NotFoundInGroup(lastCall'.id, lastCall'.group))
        => /\ UNCHANGED <<drawList, layerGroups>>
           /\ DOMAIN allDrawables' = DOMAIN allDrawables
           /\ \A k \in 1..Len(drawList') : drawList'[k] \in DOMAIN allDrawables']_vars

-----------------------------------------------------------------------------
(* The Silhouette oracle.                                                  *)

TransparentPixel == <<0, 0, 0, 0>>
OpaquePixel == <<255, 128, 0, 255>>
PixelInputs == {TransparentPixel, OpaquePixel}

\* new Silhouette(): no buffer, and own-property colorAt* that fill with 0
NewSilhouette ==
    [width |-> 0, height |-> 0, hasColorData |-> FALSE, colorData |-> <<>>,
     colorAtOverridden |-> TRUE]

\* A variant of update that returns on a source without area before it stores
\* the new dimensions.
SilhouetteUpdateKeepsSize(sil, bitmapData) ==
    IF bitmapData.isImageData \/ (bitmapData.width # 0 /\ bitmapData.height # 0)
    THEN [width |-> bitmapData.width, height |-> bitmapData.height,
          hasColorData |-> TRUE, colorData |-> bitmapData.data,
          colorAtOverridden |-> FALSE]
    ELSE sil

\* Silhouette.update(bitmapData). An ImageData is used directly; anything
\* else is drawn to the update canvas and read back, unless it has no area.
SilhouetteUpdate(sil, bitmapData) ==
    IF bitmapData.isImageData \/ (bitmapData.width # 0 /\ bitmapData.height # 0)
    THEN [width |-> bitmapData.width, height |-> bitmapData.height,
          hasColorData |-> TRUE, colorData |-> bitmapData.data,
          colorAtOverridden |-> FALSE]
    ELSE [sil EXCEPT !.width = bitmapData.width, !.height = bitmapData.height]

\* getPoint: the alpha at pixel (x, y), 0 outside the buffer
GetPoint(sil, x, y) ==
    IF x >= sil.width \/ y >= sil.height \/ x < 0 \/ y < 0
    THEN 0
    ELSE sil.colorData[(y * sil.width) + x + 1][4]

\* getColor4b: the colour at pixel (x, y), zeros outside the buffer
GetColor4b(sil, x, y) ==
    IF x >= sil.width \/ y >= sil.height \/ x < 0 \/ y < 0
    THEN <<0, 0, 0, 0>>
    ELSE sil.colorData[(y * sil.width) + x + 1]

\* Math.floor(vec[i] * (dim - 1))
TexelIndex(coord, dim) == RFloor(RMul(coord, RI(dim - 1)))

\* isTouchingNearest: "undefined" without a buffer
IsTouchingNearest(sil, vec) ==
    IF ~sil.hasColorData THEN "undefined"
    ELSE IF GetPoint(sil, TexelIndex(vec[1], sil.width), TexelIndex(vec[2], sil.height)) > 0
         THEN "true" ELSE "false"

\* isTouchingLinear: "undefined" without a buffer
IsTouchingLinear(sil, vec) ==
    IF ~sil.hasColorData THEN "undefined"
    ELSE LET x == TexelIndex(vec[1], sil.width)
             y == TexelIndex(vec[2], sil.height)
         IN  IF \/ GetPoint(sil, x, y) > 0
                \/ GetPoint(sil, x + 1, y) > 0
                \/ GetPoint(sil, x, y + 1) > 0
                \/ GetPoint(sil, x + 1, y + 1) > 0
             THEN "true" ELSE "false"

\* colorAtNearest, with the constructor's override while it is in place
ColorAtNearest(sil, vec) ==
    IF sil.colorAtOverridden THEN <<0, 0, 0, 0>>
    ELSE GetColor4b(sil, TexelIndex(vec[1], sil.width), TexelIndex(vec[2], sil.height))

\* colorAtLinear, with the constructor's override while it is in place
ColorAtLinear(sil, vec) ==
    IF sil.colorAtOverridden THEN <<0, 0, 0, 0>>
    ELSE LET x == RMul(vec[1], RI(sil.width - 1))
             y == RMul(vec[2], RI(sil.height - 1))
             x1D == RMod1(x)
             y1D == RMod1(y)
             x0D == RSub(RI(1), x1D)
             y0D == RSub(RI(1), y1D)
             xFloor == RFloor(x)
             yFloor == RFloor(y)
             x0y0 == GetColor4b(sil, xFloor, yFloor)
             x1y0 == GetColor4b(sil, xFloor + 1, yFloor)
             x0y1 == GetColor4b(sil, xFloor, yFloor + 1)
             x1y1 == GetColor4b(sil, xFloor + 1, yFloor + 1)
             Blend(c) == ToUint8Clamped(
                 RAdd(RAdd(RMul(RI(x0y0[c]), RMul(x0D, y0D)), RMul(RI(x0y1[c]), RMul(x0D, y1D))),
                      RAdd(RMul(RI(x1y0[c]), RMul(x1D, y0D)), RMul(RI(x1y1[c]), RMul(x1D, y1D)))))
         IN  <<Blend(1), Blend(2), Blend(3), Blend(4)>>

\* The sources update is given: ImageData (never of zero area) and canvases or
\* images of any size, zero included, with every pixel opaque or transparent.
BitmapSizes ==
    {wh \in (0..MaxSilhouettePixels) \X (0..MaxSilhouettePixels) :
        wh[1] * wh[2] <= MaxSilhouettePixels}

BitmapInputs ==
    UNION {
        {[isImageData |-> img, width |-> wh[1], height |-> wh[2], data |-> d] :
            d \in [1..(wh[1] * wh[2]) -> PixelInputs],
            img \in IF wh[1] = 0 \/ wh[2] = 0 THEN {FALSE} ELSE BOOLEAN} :
        wh \in BitmapSizes}

\* Texture coordinates queried: inside [0, 1], on its edges, and outside it.
CoordInputs == {R(0 - 1, 2), R(0 - 1, 4), RI(0), R(1, 2), RI(1), R(5, 4), RI(2)}

OutsideUnitSquare(vec) ==
    RLt(vec[1], RI(0)) \/ RLt(RI(1), vec[1]) \/ RLt(vec[2], RI(0)) \/ RLt(RI(1), vec[2])

Update(bitmapData) ==
    /\ silhouette' = SilhouetteUpdate(silhouette, bitmapData)
    /\ silRet' = [op |-> "update", outside |-> FALSE, touch |-> "undefined",
                  color |-> <<0, 0, 0, 0>>,
                  lastUpdate |-> IF bitmapData.width = 0 \/ bitmapData.height = 0
                                 THEN "empty" ELSE "filled"]

QueryIsTouchingNearest(vec) ==
    /\ silRet' = [silRet EXCEPT !.op = "isTouchingNearest", !.outside = OutsideUnitSquare(vec),
                                !.touch = IsTouchingNearest(silhouette, vec),
                                !.color = <<0, 0, 0, 0>>]
    /\ UNCHANGED silhouette

QueryIsTouchingLinear(vec) ==
    /\ silRet' = [silRet EXCEPT !.op = "isTouchingLinear", !.outside = OutsideUnitSquare(vec),
                                !.touch = IsTouchingLinear(silhouette, vec),
                                !.color = <<0, 0, 0, 0>>]
    /\ UNCHANGED silhouette

QueryColorAtNearest(vec) ==
    /\ silRet' = [silRet EXCEPT !.op = "colorAtNearest", !.outside = OutsideUnitSquare(vec), !.touch = "undefined",
                                !.color = ColorAtNearest(silhouette, vec)]
    /\ UNCHANGED silhouette

QueryColorAtLinear(vec) ==
    /\ silRet' = [silRet EXCEPT !.op = "colorAtLinear", !.outside = OutsideUnitSquare(vec), !.touch = "undefined",
                                !.color = ColorAtLinear(silhouette, vec)]
    /\ UNCHANGED silhouette

InitSilhouette ==
    /\ silhouette = NewSilhouette
    /\ silRet = [op |-> "constructor", outside |-> FALSE, touch |-> "undefined",
                 color |-> <<0, 0, 0, 0>>, lastUpdate |-> "none"]

OnlySilhouette == UNCHANGED <<dlVars, drwVars, colVars, hullVars, touchVars, readyVars, pickVars, missVars, skinVars, altVars>>

NextSilhouette ==
    \/ \E bitmapData \in BitmapInputs : Update(bitmapData) /\ OnlySilhouette
    \/ \E u \in CoordInputs, v \in CoordInputs :
            QueryIsTouchingNearest(<<u, v>>) /\ OnlySilhouette
    \/ \E u \in CoordInputs, v \in CoordInputs :
            QueryIsTouchingLinear(<<u, v>>) /\ OnlySilhouette
    \/ \E u \in CoordInputs, v \in CoordInputs :
            QueryColorAtNearest(<<u, v>>) /\ OnlySilhouette
    \/ \E u \in CoordInputs, v \in CoordInputs :
            QueryColorAtLinear(<<u, v>>) /\ OnlySilhouette

IsTouchQuery == silRet.op \in {"isTouchingNearest", "isTouchingLinear"}
IsColorQuery == silRet.op \in {"colorAtNearest", "colorAtLinear"}

\* C6: on every updated silhouette (width and height >= 1), isTouchingNearest
\* and isTouchingLinear at a coordinate (u, v) with u < 0, u > 1, v < 0 or
\* v > 1 return false.
C6_OutOfBoundsNoTouch ==
    (IsTouchQuery /\ silRet.outside /\ silhouette.hasColorData
        /\ silhouette.width >= 1 /\ silhouette.height >= 1)
    => silRet.touch = "false"

\* C7: on a Silhouette that has never been updated, or whose latest update
\* had a source of zero width or height, every touch query reports no touch
\* and every colour query returns the all-zero colour.
C7_NoBufferNoTouch ==
    (silRet.lastUpdate \in {"none", "empty"})
    => /\ IsTouchQuery => silRet.touch # "true"
       /\ IsColorQuery => silRet.color = <<0, 0, 0, 0>>

\* C7's case: a touch query on a silhouette that once held opaque pixels and
\* was then updated from a source without area.
C7_Witness ==
    /\ silRet.op = "isTouchingLinear" /\ silRet.lastUpdate = "empty"
    /\ silhouette.hasColorData
    /\ \E k \in 1..Len(silhouette.colorData) : silhouette.colorData[k][4] > 0

\* C22: Silhouette.update(source) replaces width, height and pixel buffer
\* together: after it returns the buffer is the one of the dimensions held,
\* width * height pixels, also for a source of zero width or height.
C22_UpdateReplacesAllThree ==
    silRet.op = "update" => Len(silhouette.colorData) = silhouette.width * silhouette.height

-----------------------------------------------------------------------------
(* gl-matrix as Drawable uses it: mat2d is <<a, b, c, d, tx, ty>>.         *)

Mat2dCreate == <<RI(1), RI(0), RI(0), RI(1), RI(0), RI(0)>>
Vec2Create == <<RI(0), RI(0)>>

\* matrix.vec2.transformMat2d(out, a, m)
TransformMat2d(a, m) ==
    <<RAdd(RAdd(RMul(m[1], a[1]), RMul(m[3], a[2])), m[5]),
      RAdd(RAdd(RMul(m[2], a[1]), RMul(m[4], a[2])), m[6])>>

\* matrix.mat2d.scale(out, a, v)
Mat2dScale(a, v) ==
    <<RMul(a[1], v[1]), RMul(a[2], v[1]), RMul(a[3], v[2]), RMul(a[4], v[2]), a[5], a[6]>>

\* matrix.mat2d.invert(out, a): out is left as it was when a is singular.
Mat2dInvert(out, a) ==
    LET det == RSub(RMul(a[1], a[4]), RMul(a[2], a[3]))
    IN  IF det[1] = 0 THEN out
        ELSE <<RDiv(a[4], det), RDiv(RNeg(a[2]), det),
               RDiv(RNeg(a[3]), det), RDiv(a[1], det),
               RDiv(RSub(RMul(a[3], a[6]), RMul(a[4], a[5])), det),
               RDiv(RSub(RMul(a[2], a[5]), RMul(a[1], a[6])), det)>>

\* Math.cos and Math.sin of a multiple of 90 degrees.
CosDeg(deg) == LET q == deg % 360 IN IF q = 0 THEN RI(1) ELSE IF q = 180 THEN RI(0 - 1) ELSE RI(0)
SinDeg(deg) == LET q == deg % 360 IN IF q = 90 THEN RI(1) ELSE IF q = 270 THEN RI(0 - 1) ELSE RI(0)

\* Math.round of a rational: floor(x + 1/2).
MathRound(a) == RFloor(RAdd(a, R(1, 2)))

-----------------------------------------------------------------------------
(* Skins.  A skin is known by its id (object identity).                    *)

BitmapSkinSizeRatio == 2
SkinSizeRatio == 1
DefaultCostumeResolution == 2

\* The _skin field before createDrawable assigns it, and the null skin.
UndefinedSkin ==
    [kind |-> "undefined", id |-> ID_NONE, size |-> Vec2Create, sizeRatio |-> SkinSizeRatio,
     rotationCenter |-> Vec2Create, silhouette |-> NewSilhouette, hasTexture |-> FALSE]
NullSkin == [UndefinedSkin EXCEPT !.kind = "null"]

\* new BitmapSkin(id, renderer): _texture is a canvas of its own.
NewBitmapSkin(id) ==
    [kind |-> "bitmap", id |-> id, size |-> Vec2Create, sizeRatio |-> BitmapSkinSizeRatio,
     rotationCenter |-> Vec2Create, silhouette |-> NewSilhouette, hasTexture |-> TRUE]

\* Skin._emptyImageTexture: a 1x1 canvas holding one transparent pixel.
EmptyImageTexture ==
    [isImageData |-> FALSE, width |-> 1, height |-> 1, data |-> <<TransparentPixel>>]

\* Skin.setEmptyImageData: _texture is set to null.
SetEmptyImageData(skin) ==
    [skin EXCEPT !.hasTexture = FALSE,
                 !.rotationCenter = Vec2Create,
                 !.silhouette = SilhouetteUpdate(skin.silhouette, EmptyImageTexture)]

\* Skin.calculateRotationCenter
CalculateRotationCenter(skin) == <<RDiv(skin.size[1], RI(2)), RDiv(skin.size[2], RI(2))>>

\* setBitmap throws a TypeError at `this._texture.width = texSize[0]` when
\* the bitmap has an area and _texture is null.
SetBitmapThrows(skin, bitmapData) ==
    bitmapData.width # 0 /\ bitmapData.height # 0 /\ ~skin.hasTexture

\* BitmapSkin.setBitmap with the rotation centre left to be calculated: the
\* bitmap is drawn to the skin's own canvas, which the silhouette reads.
\* When it throws, nothing has been changed yet.
SetBitmap(skin, bitmapData, costumeResolution) ==
    IF bitmapData.width = 0 \/ bitmapData.height = 0
    THEN SetEmptyImageData(skin)
    ELSE IF SetBitmapThrows(skin, bitmapData) THEN skin
    ELSE LET texture == [bitmapData EXCEPT !.isImageData = FALSE]
             sized == [skin EXCEPT
                          !.silhouette = SilhouetteUpdate(skin.silhouette, texture),
                          !.size = <<R(bitmapData.width, costumeResolution),
                                     R(bitmapData.height, costumeResolution)>>]
         IN  [sized EXCEPT !.rotationCenter = CalculateRotationCenter(sized)]

\* A fully opaque bitmap of the given size.
OpaqueBitmap(w, h) ==
    [isImageData |-> TRUE, width |-> w, height |-> h, data |-> [k \in 1..(w * h) |-> OpaquePixel]]

-----------------------------------------------------------------------------
(* EffectManager: the effects a drawable carries.                          *)

EFFECTS == {"color", "fisheye", "whirl", "pixelate", "mosaic", "brightness", "ghost"}

\* EFFECT_INFO[effectName].mask
EffectMask(effectName) ==
    CASE effectName = "color" -> 1
      [] effectName = "fisheye" -> 2
      [] effectName = "whirl" -> 4
      [] effectName = "pixelate" -> 8
      [] effectName = "mosaic" -> 16
      [] effectName = "brightness" -> 32
      [] effectName = "ghost" -> 64

\* EFFECT_INFO[effectName].shapeChanges
EffectShapeChanges(effectName) == effectName \in {"fisheye", "whirl", "pixelate", "mosaic"}

\* EFFECT_INFO[effectName].converter(x), x an integer.  The whirl value
\* -x * PI / 180 is kept as its multiple of PI.
EffectConverter(effectName, x) ==
    CASE effectName = "color" -> RMod1(R(x, 200))
      [] effectName = "fisheye" -> RMax(RI(0), R(x + 100, 100))
      [] effectName = "whirl" -> R(0 - x, 180)
      [] effectName = "pixelate" -> R(Abs(x), 10)
      [] effectName = "mosaic" -> RI(Max2(1, Min2(MathRound(R(Abs(x) + 10, 10)), 512)))
      [] effectName = "brightness" -> R(Max2(0 - 100, Min2(x, 100)), 100)
      [] effectName = "ghost" -> RSub(RI(1), R(Max2(0, Min2(x, 100)), 100))

\* enabledEffects |= mask and enabledEffects &= ~mask
BitSet(bits, mask) == IF (bits \div mask) % 2 = 1 THEN bits ELSE bits + mask
BitClear(bits, mask) == IF (bits \div mask) % 2 = 1 THEN bits - mask ELSE bits

-----------------------------------------------------------------------------
(* Drawable: logical state, dirty flags and cached matrices.               *)

\* new Drawable(id, renderer).  _AABBDirty is not set by the constructor
\* (it sets _aabbDirty), so it starts undefined, which reads as false.
ConstructDrawable(id) ==
    [id |-> id, skin |-> UndefinedSkin,
     position |-> <<0, 0>>, scale |-> <<100, 100>>, direction |-> 90,
     visible |-> TRUE, enabledEffects |-> 0,
     effects |-> [effectName \in EFFECTS |-> EffectConverter(effectName, 0)],
     transformMatrix |-> Mat2dCreate, transformDirty |-> TRUE,
     rotationMatrix |-> Mat2dCreate, rotationTransformDirty |-> TRUE,
     rotationCenter |-> Vec2Create, rotationCenterDirty |-> TRUE,
     skinScale |-> Vec2Create, skinScaleDirty |-> TRUE,
     inverseMatrix |-> Mat2dCreate, inverseTransformDirty |-> TRUE,
     AABBDirty |-> FALSE, aabbPoints |-> <<Vec2Create, Vec2Create, Vec2Create, Vec2Create>>,
     hasConvexHullPoints |-> FALSE, convexHullPoints |-> <<>>, convexHullDirty |-> TRUE,
     transformedHullPoints |-> <<>>, transformedHullDirty |-> TRUE,
     isTouching |-> "never"]

SetTransformDirty(d) ==
    [d EXCEPT !.transformDirty = TRUE, !.inverseTransformDirty = TRUE,
              !.transformedHullDirty = TRUE]

SetConvexHullDirty(d) == [d EXCEPT !.convexHullDirty = TRUE]

SetAABBDirty(d) == [d EXCEPT !.AABBDirty = TRUE]

\* Drawable._skinWasAltered
SkinWasAltered(d) ==
    SetTransformDirty(SetAABBDirty(SetConvexHullDirty(
        [d EXCEPT !.rotationCenterDirty = TRUE, !.skinScaleDirty = TRUE])))

\* set skin (newSkin)
DrawableSetSkin(d, newSkin) ==
    IF d.skin.kind # newSkin.kind \/ d.skin.id # newSkin.id
    THEN SkinWasAltered([d EXCEPT !.skin = newSkin])
    ELSE d

\* updatePosition: the new position is compared as given and stored rounded.
DrawableUpdatePosition(d, position) ==
    IF RI(d.position[1]) # position[1] \/ RI(d.position[2]) # position[2]
    THEN SetTransformDirty(
             [d EXCEPT !.position = <<MathRound(position[1]), MathRound(position[2])>>])
    ELSE d

DrawableUpdateDirection(d, direction) ==
    IF d.direction # direction
    THEN SetTransformDirty([d EXCEPT !.direction = direction, !.rotationTransformDirty = TRUE])
    ELSE d

\* updateScale without the dirty marks.
DrawableUpdateScaleKeepsClean(d, scale) ==
    IF d.scale[1] # scale[1] \/ d.scale[2] # scale[2]
    THEN [d EXCEPT !.scale = scale]
    ELSE d

DrawableUpdateScale(d, scale) ==
    IF d.scale[1] # scale[1] \/ d.scale[2] # scale[2]
    THEN SetTransformDirty(
             [d EXCEPT !.scale = scale, !.rotationCenterDirty = TRUE, !.skinScaleDirty = TRUE])
    ELSE d

\* updateVisible without the dirty mark.
DrawableUpdateVisibleKeepsHull(d, visible) == [d EXCEPT !.visible = visible]

DrawableUpdateVisible(d, visible) ==
    IF d.visible # visible
    THEN SetConvexHullDirty([d EXCEPT !.visible = visible])
    ELSE d

\* updateEffect, for a known effect name: the value is stored and the hull
\* marked dirty without a comparison with the value held.
DrawableUpdateEffect(d, effectName, rawValue) ==
    IF EffectShapeChanges(effectName)
    THEN SetConvexHullDirty(
             [d EXCEPT !.enabledEffects = IF rawValue # 0 THEN BitSet(@, EffectMask(effectName))
                                          ELSE BitClear(@, EffectMask(effectName)),
                       !.effects[effectName] = EffectConverter(effectName, rawValue)])
    ELSE [d EXCEPT !.enabledEffects = IF rawValue # 0 THEN BitSet(@, EffectMask(effectName))
                                      ELSE BitClear(@, EffectMask(effectName)),
                   !.effects[effectName] = EffectConverter(effectName, rawValue)]

\* Drawable._calculateTransform, in its four steps.  It is only run on a
\* drawable whose skin has been assigned (null or a skin).
AdjustRotationMatrix(d) ==
    IF d.rotationTransformDirty
    THEN [d EXCEPT !.rotationMatrix = <<CosDeg(90 - d.direction), SinDeg(90 - d.direction),
                                        RNeg(SinDeg(90 - d.direction)), CosDeg(90 - d.direction),
                                        @[5], @[6]>>,
                   !.rotationTransformDirty = FALSE]
    ELSE d

AdjustRotationCenter(d) ==
    IF d.rotationCenterDirty /\ d.skin.kind # "null"
    THEN [d EXCEPT !.rotationCenter = <<RMul(d.skin.rotationCenter[1], RI(d.skin.sizeRatio)),
                                        RMul(d.skin.rotationCenter[2], RI(d.skin.sizeRatio))>>,
                   !.rotationCenterDirty = FALSE]
    ELSE d

AdjustSkinScale(d) ==
    IF d.skinScaleDirty /\ d.skin.kind # "null"
    THEN [d EXCEPT !.skinScale = <<RDiv(R(d.scale[1], 100), RI(d.skin.sizeRatio)),
                                   RDiv(R(0 - d.scale[2], 100), RI(d.skin.sizeRatio))>>,
                   !.skinScaleDirty = FALSE]
    ELSE d

\* transformMatrix[4] and [5]: (m0 * -center0) + (m2 * -center1) + position
Translation(m0, m2, center, position) ==
    RAdd(RAdd(RMul(m0, RNeg(center[1])), RMul(m2, RNeg(center[2]))), RI(position))

ComposeTransformMatrix(d) ==
    [d EXCEPT !.transformMatrix =
                  <<RMul(d.rotationMatrix[1], d.skinScale[1]),
                    RMul(d.rotationMatrix[2], d.skinScale[1]),
                    RMul(d.rotationMatrix[3], d.skinScale[2]),
                    RMul(d.rotationMatrix[4], d.skinScale[2]),
                    Translation(RMul(d.rotationMatrix[1], d.skinScale[1]),
                                RMul(d.rotationMatrix[3], d.skinScale[2]),
                                d.rotationCenter, d.position[1]),
                    Translation(RMul(d.rotationMatrix[2], d.skinScale[1]),
                                RMul(d.rotationMatrix[4], d.skinScale[2]),
                                d.rotationCenter, d.position[2])>>,
              !.transformDirty = FALSE]

CalculateTransform(d) ==
    ComposeTransformMatrix(AdjustSkinScale(AdjustRotationCenter(AdjustRotationMatrix(d))))

\* getTransform: the drawable afterwards; what it returns is its transformMatrix.
DrawableGetTransform(d) == IF d.transformDirty THEN CalculateTransform(d) ELSE d

\* updateMatrix: the transform as getTransform leaves it, then the inverse.
UpdateInverse(d) ==
    IF d.inverseTransformDirty
    THEN [d EXCEPT !.inverseMatrix = Mat2dInvert(d.inverseMatrix, d.transformMatrix),
                   !.inverseTransformDirty = FALSE]
    ELSE d

DrawableUpdateMatrix(d) == UpdateInverse(DrawableGetTransform(d))

\* The transform computed from scratch: a newly constructed drawable given
\* the same skin, position, direction and scale.
TransformFromScratch(d) ==
    CalculateTransform(
        [SkinWasAltered(ConstructDrawable(d.id)) EXCEPT
            !.skin = d.skin, !.position = d.position,
            !.direction = d.direction, !.scale = d.scale]).transformMatrix

\* Inputs of the transform component.
PositionInputs == {<<RI(0), RI(0)>>, <<R(1, 2), R(0 - 7, 2)>>}
DirectionInputs == {90, 180}
ScaleInputs == {<<100, 100>>, <<200, 50>>}
SkinInputs ==
    {NullSkin,
     SetBitmap(NewBitmapSkin(0), OpaqueBitmap(2, 2), DefaultCostumeResolution),
     SetBitmap(NewBitmapSkin(1), OpaqueBitmap(4, 2), 1)}

DrwRet(op, d, wasDirty) ==
    [op |-> op, transform |-> d.transformMatrix, wasDirty |-> wasDirty,
     readBefore |-> drwRet.readBefore \/ drwRet.op \in {"getTransform", "updateMatrix"}]

UpdatePosition(position) ==
    /\ drawable' = DrawableUpdatePosition(drawable, position)
    /\ drwRet' = DrwRet("updatePosition", drawable', FALSE)

UpdateDirection(direction) ==
    /\ drawable' = DrawableUpdateDirection(drawable, direction)
    /\ drwRet' = DrwRet("updateDirection", drawable', FALSE)

UpdateScale(scale) ==
    /\ drawable' = DrawableUpdateScale(drawable, scale)
    /\ drwRet' = DrwRet("updateScale", drawable', FALSE)

UpdateSkin(newSkin) ==
    /\ drawable' = DrawableSetSkin(drawable, newSkin)
    /\ drwRet' = DrwRet("setSkin", drawable', FALSE)

GetTransform ==
    /\ drawable' = DrawableGetTransform(drawable)
    /\ drwRet' = DrwRet("getTransform", drawable', drawable.transformDirty)

UpdateMatrix ==
    /\ drawable' = DrawableUpdateMatrix(drawable)
    /\ drwRet' = DrwRet("updateMatrix", drawable', drawable.transformDirty)

\* createDrawable: the constructor, then `drawable.skin = null`.
InitTransform ==
    /\ drawable = DrawableSetSkin(ConstructDrawable(0), NullSkin)
    /\ drwRet = [op |-> "createDrawable", transform |-> Mat2dCreate, wasDirty |-> FALSE,
                 readBefore |-> FALSE]

OnlyTransform == UNCHANGED <<dlVars, silVars, colVars, hullVars, touchVars, readyVars, pickVars, missVars, skinVars, altVars>>

NextTransform ==
    \/ \E position \in PositionInputs : UpdatePosition(position) /\ OnlyTransform
    \/ \E direction \in DirectionInputs : UpdateDirection(direction) /\ OnlyTransform
    \/ \E scale \in ScaleInputs : UpdateScale(scale) /\ OnlyTransform
    \/ \E newSkin \in SkinInputs : UpdateSkin(newSkin) /\ OnlyTransform
    \/ GetTransform /\ OnlyTransform
    \/ UpdateMatrix /\ OnlyTransform

\* C2: on a drawable that has a skin, whatever updatePosition,
\* updateDirection, updateScale calls and getTransform / updateMatrix reads
\* came before, getTransform returns exactly the transform computed from
\* scratch from the current rounded position, direction, scale and skin.
C2_GetTransformNeverStale ==
    (drwRet.op = "getTransform" /\ drawable.skin.kind = "bitmap")
    => drwRet.transform = TransformFromScratch(drawable)

\* C2's case: a read that follows an earlier read and an update made after
\* it, on a moved, turned and scaled drawable with a skin.
C2_Witness ==
    /\ drwRet.op = "getTransform" /\ drwRet.readBefore /\ drwRet.wasDirty
    /\ drawable.skin.kind = "bitmap"
    /\ drawable.position # <<0, 0>> /\ drawable.direction # 90
    /\ drawable.scale # <<100, 100>>

\* The object-space points the round trip is tried on.
RoundTripPoints == {<<RI(0), RI(0)>>, <<RI(1), RI(0)>>, <<RI(0), RI(1)>>}

\* C19: after updateMatrix() on any drawable, with or without a skin, the
\* cached inverse matrix is the inverse of the cached forward transform:
\* applying forward then inverse to an object-space point yields that point.
C19_InverseUndoesForward ==
    drwRet.op = "updateMatrix"
    => \A p \in RoundTripPoints :
          TransformMat2d(TransformMat2d(p, drawable.transformMatrix), drawable.inverseMatrix) = p

-----------------------------------------------------------------------------
(* Colour sampling: Drawable.sampleColor4b and RenderCanvas.sampleColor3b. *)

\* getLocalPosition: a stage point (integers) to texture coordinates, by the
\* drawable's inverse matrix as it stands.
GetLocalPosition(d, vec) ==
    LET p == TransformMat2d(<<RAdd(RI(vec[1]), R(1, 2)), RSub(RI(vec[2]), R(1, 2))>>,
                            d.inverseMatrix)
    IN  <<RDiv(p[1], RMul(d.skin.size[1], RI(d.skin.sizeRatio))),
          RDiv(p[2], RMul(d.skin.size[2], RI(d.skin.sizeRatio)))>>

\* The colour of the silhouette at a local position, zero outside [0,1] x [0,1].
ColorAtLocalPosition(sil, localPosition) ==
    IF OutsideUnitSquare(localPosition) THEN <<0, 0, 0, 0>>
    ELSE ColorAtNearest(sil, localPosition)

\* Drawable.sampleColor4b for a drawable without effects.
SampleColor4b(vec, d) == ColorAtLocalPosition(d.skin.silhouette, GetLocalPosition(d, vec))

\* dst[i] += x, dst a Uint8ClampedArray
AddClamped(dst, x) ==
    <<ToUint8Clamped(RAdd(RI(dst[1]), x[1])), ToUint8Clamped(RAdd(RI(dst[2]), x[2])),
      ToUint8Clamped(RAdd(RI(dst[3]), x[3]))>>

\* One pass of the loop body: the sampled colour blended into dst, and the
\* alpha that remains.
BlendInto(acc, color) ==
    [dst |-> AddClamped(acc.dst, <<RMul(RI(color[1]), acc.blendAlpha),
                                   RMul(RI(color[2]), acc.blendAlpha),
                                   RMul(RI(color[3]), acc.blendAlpha)>>),
     blendAlpha |-> RMul(acc.blendAlpha, RSub(RI(1), R(color[4], 255))),
     sampled |-> acc.sampled + 1]

\* The loop condition with the test of blendAlpha left out.
ContinueToEndOfList(acc, index, drawables) == index <= Len(drawables)

\* blendAlpha !== 0 && index < drawables.length (index counted from 1 here)
ContinueBlending(acc, index, drawables) ==
    acc.blendAlpha # RI(0) /\ index <= Len(drawables)

RECURSIVE BlendLoop(_, _, _, _)
BlendLoop(acc, index, vec, drawables) ==
    IF ContinueBlending(acc, index, drawables)
    THEN BlendLoop(BlendInto(acc, SampleColor4b(vec, drawables[index])), index + 1, vec, drawables)
    ELSE acc

\* What is added after the loop: blendAlpha * 255 on every channel.
ClearColorFill(acc) ==
    [acc EXCEPT !.dst = AddClamped(acc.dst, <<RMul(acc.blendAlpha, RI(255)),
                                              RMul(acc.blendAlpha, RI(255)),
                                              RMul(acc.blendAlpha, RI(255))>>)]

\* sampleColor3b: dst, and how many drawables were sampled on the way.
SampleColor3b(vec, drawables) ==
    ClearColorFill(BlendLoop([dst |-> <<0, 0, 0>>, blendAlpha |-> RI(1), sampled |-> 0],
                             1, vec, drawables))

\* setBackgroundColor: each component times 255, stored in a Uint8ClampedArray.
BackgroundColor3bOf(red, green, blue) ==
    <<ToUint8Clamped(RMul(red, RI(255))), ToUint8Clamped(RMul(green, RI(255))),
      ToUint8Clamped(RMul(blue, RI(255)))>>

\* Inputs: drawables at (0,0) whose skin is a single pixel, ready for CPU
\* sampling (updateMatrix has run), and the points (0,0), on them, and (9,9),
\* off them.
TranslucentPixel == <<0, 64, 255, 128>>
FaintPixel == <<200, 100, 50, 51>>
SamplePixelInputs == {TransparentPixel, OpaquePixel, TranslucentPixel, FaintPixel}
OnePixelBitmap(pixel) == [isImageData |-> TRUE, width |-> 1, height |-> 1, data |-> <<pixel>>]
OnePixelDrawable(pixel) ==
    DrawableUpdateMatrix(
        DrawableSetSkin(DrawableSetSkin(ConstructDrawable(0), NullSkin),
                        SetBitmap(NewBitmapSkin(0), OnePixelBitmap(pixel), 1)))
SampledDrawableInputs ==
    UNION {[1..n -> {OnePixelDrawable(pixel) : pixel \in SamplePixelInputs}] : n \in 0..MaxSampled}
SamplePointInputs == {<<0, 0>>, <<9, 9>>}
BackgroundInputs ==
    {<<RI(1), RI(1), RI(1)>>, <<RI(0), RI(0), RI(0)>>, <<R(1, 2), RI(0), RI(1)>>,
     <<RI(0), R(1, 5), RI(0)>>, <<RI(1), R(1, 2), R(1, 5)>>}

SetBackgroundColor(red, green, blue) ==
    /\ backgroundColor3b' = BackgroundColor3bOf(red, green, blue)
    /\ colorRet' = [op |-> "setBackgroundColor", vec |-> <<0, 0>>, dst |-> <<0, 0, 0>>,
                    sampled |-> 0, colors |-> <<>>]

\* colors is history: what sampleColor4b gives for each drawable of the list
\* at the point, top first.
QuerySampleColor3b(vec, drawables) ==
    /\ colorRet' = [op |-> "sampleColor3b", vec |-> vec,
                    dst |-> SampleColor3b(vec, drawables).dst,
                    sampled |-> SampleColor3b(vec, drawables).sampled,
                    colors |-> [k \in 1..Len(drawables) |-> SampleColor4b(vec, drawables[k])]]
    /\ UNCHANGED backgroundColor3b

\* The constructor calls setBackgroundColor(1, 1, 1).
InitColor ==
    /\ backgroundColor3b = BackgroundColor3bOf(RI(1), RI(1), RI(1))
    /\ colorRet = [op |-> "constructor", vec |-> <<0, 0>>, dst |-> <<0, 0, 0>>,
                   sampled |-> 0, colors |-> <<>>]

OnlyColor == UNCHANGED <<dlVars, silVars, drwVars, hullVars, touchVars, readyVars, pickVars, missVars, skinVars, altVars>>

NextColor ==
    \/ \E rgb \in BackgroundInputs : SetBackgroundColor(rgb[1], rgb[2], rgb[3]) /\ OnlyColor
    \/ \E vec \in SamplePointInputs, drawables \in SampledDrawableInputs :
           QuerySampleColor3b(vec, drawables) /\ OnlyColor

\* C3: over an empty list, or a list that is fully transparent at the point,
\* sampleColor3b returns exactly the colour last set with setBackgroundColor.
C3_LeftoverAlphaIsBackground ==
    (colorRet.op = "sampleColor3b"
        /\ \A k \in 1..Len(colorRet.colors) : colorRet.colors[k][4] = 0)
    => colorRet.dst = backgroundColor3b

\* C4: when the topmost drawable samples as fully opaque at the point,
\* sampleColor3b returns exactly its RGB and samples no drawable below it.
C4_OpaqueTopWins ==
    (colorRet.op = "sampleColor3b" /\ Len(colorRet.colors) >= 1
        /\ colorRet.colors[1][4] = 255)
    => /\ colorRet.dst = <<colorRet.colors[1][1], colorRet.colors[1][2], colorRet.colors[1][3]>>
       /\ colorRet.sampled = 1

\* C4's case: an opaque drawable on top of a visible, differently coloured
\* one, over a background that is not white.
C4_Witness ==
    /\ colorRet.op = "sampleColor3b" /\ Len(colorRet.colors) = 2
    /\ colorRet.colors[1][4] = 255 /\ colorRet.colors[2][4] > 0
    /\ colorRet.colors[2] # colorRet.colors[1]
    /\ backgroundColor3b # <<255, 255, 255>>

-----------------------------------------------------------------------------
(* Rectangle, as the specification describes it: left <= right and         *)
(* bottom <= top, with intersection, union, integer snapping and clamping. *)

MinOf(S) == CHOOSE m \in S : \A n \in S : RLe(m, n)
MaxOf(S) == CHOOSE m \in S : \A n \in S : RLe(n, m)

\* initFromPointsAABB: the smallest box holding every point.
InitFromPointsAABB(points) ==
    [left |-> MinOf({points[k][1] : k \in 1..Len(points)}),
     right |-> MaxOf({points[k][1] : k \in 1..Len(points)}),
     bottom |-> MinOf({points[k][2] : k \in 1..Len(points)}),
     top |-> MaxOf({points[k][2] : k \in 1..Len(points)})]

\* clamp: each side cut to the limits, then kept on the limits' side of
\* the opposite limit, so that left <= right and bottom <= top remain.
RectClamp(r, left, right, bottom, top) ==
    [left |-> RMin(RMax(r.left, left), right),
     right |-> RMax(RMin(r.right, right), left),
     bottom |-> RMin(RMax(r.bottom, bottom), top),
     top |-> RMax(RMin(r.top, top), bottom)]

\* snapToInt: pushed out to integers.
RectSnapToInt(r) ==
    [left |-> RI(RFloor(r.left)), right |-> RI(RCeil(r.right)),
     bottom |-> RI(RFloor(r.bottom)), top |-> RI(RCeil(r.top))]

RectWidth(r) == RSub(r.right, r.left)
RectHeight(r) == RSub(r.top, r.bottom)

\* intersects: the closed boxes share a point.
RectIntersects(a, b) ==
    RLe(a.left, b.right) /\ RLe(b.left, a.right) /\ RLe(b.bottom, a.top) /\ RLe(a.bottom, b.top)

RectIntersect(a, b) ==
    [left |-> RMax(a.left, b.left), right |-> RMin(a.right, b.right),
     bottom |-> RMax(a.bottom, b.bottom), top |-> RMin(a.top, b.top)]

RectUnion(a, b) ==
    [left |-> RMin(a.left, b.left), right |-> RMax(a.right, b.right),
     bottom |-> RMin(a.bottom, b.bottom), top |-> RMax(a.top, b.top)]

\* The closed boxes have no point in common.
RectDisjoint(a, b) == ~RectIntersects(a, b)

-----------------------------------------------------------------------------
(* The convex-hull extractor, and the bounds Drawable builds on it.        *)

\* updateCPURenderAttributes: a BitmapSkin has no deferred silhouette and
\* always asks for nearest-neighbour sampling.
ChooseIsTouching(d) ==
    [d EXCEPT !.isTouching = IF d.skin.kind = "bitmap" THEN "nearest" ELSE "never"]

UpdateCPURenderAttributes(d) == ChooseIsTouching(DrawableUpdateMatrix(d))

\* drawable.isTouching replaced by a test that every point passes.
TouchesEverywhere(d, vec) == TRUE

\* drawable.isTouching(vec): a result that is not true (false, undefined) is no touch.
DrawableIsTouching(d, vec) ==
    /\ d.isTouching # "never"
    /\ IF d.isTouching = "nearest"
       THEN IsTouchingNearest(d.skin.silhouette, GetLocalPosition(d, vec)) = "true"
       ELSE IsTouchingLinear(d.skin.silhouette, GetLocalPosition(d, vec)) = "true"

Determinant(A, B, C) ==
    RSub(RMul(RSub(B[1], A[1]), RSub(C[2], A[2])), RMul(RSub(B[2], A[2]), RSub(C[1], A[1])))

\* skin.isTouchingLinear at the sample point of column x (a number) of row y.
RowSampleTouches(skin, x, y) ==
    IsTouchingLinear(skin.silhouette,
                     <<RDiv(RAdd(x, R(1, 2)), skin.size[1]),
                       RDiv(RAdd(RI(y), R(1, 2)), skin.size[2])>>) = "true"

\* The columns the scan from the left visits: x = 0, 1, ... while x < width.
LeftScanHits(skin, y) ==
    {RI(x) : x \in {c \in 0..(RCeil(skin.size[1]) - 1) : RowSampleTouches(skin, RI(c), y)}}

\* The columns the scan from the right visits: x = width - 1, width - 2, ...
\* while x >= 0.
RightScanHits(skin, y) ==
    {RSub(skin.size[1], RI(k + 1)) :
        k \in {c \in 0..RFloor(RSub(skin.size[1], RI(1))) :
                  RowSampleTouches(skin, RSub(skin.size[1], RI(c + 1)), y)}}

HullPoint(x, y) == <<RAdd(x, R(1, 2)), RAdd(RI(y), R(1, 2))>>

\* currentPoint after the two scans of a row that has a hit from the left:
\* the scan from the right leaves it alone when it finds nothing.
LeftPoint(skin, y) == HullPoint(MinOf(LeftScanHits(skin, y)), y)
RightPoint(skin, y) ==
    IF RightScanHits(skin, y) = {} THEN LeftPoint(skin, y)
    ELSE HullPoint(MaxOf(RightScanHits(skin, y)), y)

\* The end index is lowered while the turn to the current point is not the
\* wanted one (counter-clockwise, sign 1, on the left; clockwise, sign -1, on
\* the right), and never below the first point.
RECURSIVE PopToTurn(_, _, _)
PopToTurn(chain, currentPoint, sign) ==
    IF Len(chain) > 1
    THEN IF sign * Determinant(chain[Len(chain)], chain[Len(chain) - 1], currentPoint)[1] > 0
         THEN chain
         ELSE PopToTurn(SubSeq(chain, 1, Len(chain) - 1), currentPoint, sign)
    ELSE chain

PushPoint(chain, currentPoint, sign) == Append(PopToTurn(chain, currentPoint, sign), currentPoint)

HullRow(hull, skin, y) ==
    IF LeftScanHits(skin, y) = {} THEN hull
    ELSE [leftHull |-> PushPoint(hull.leftHull, LeftPoint(skin, y), 1),
          rightHull |-> PushPoint(hull.rightHull, RightPoint(skin, y), 0 - 1)]

RECURSIVE HullRows(_, _, _)
HullRows(hull, skin, y) ==
    IF RLt(RI(y), skin.size[2]) THEN HullRows(HullRow(hull, skin, y), skin, y + 1) ELSE hull

\* The left chain, then the right chain from its end to its start.
JoinHulls(hull) ==
    hull.leftHull \o [k \in 1..Len(hull.rightHull) |-> hull.rightHull[Len(hull.rightHull) + 1 - k]]

\* _getConvexHullPointsForDrawable: the points it returns.
GetConvexHullPointsForDrawable(d) ==
    IF ~d.visible \/ d.skin.size[1] = RI(0) \/ d.skin.size[2] = RI(0) THEN <<>>
    ELSE JoinHulls(HullRows([leftHull |-> <<>>, rightHull |-> <<>>], d.skin, 0))

\* _getConvexHullPointsForDrawable: the drawable it leaves (it calls
\* updateCPURenderAttributes unless it returns early).
AfterConvexHullPoints(d) ==
    IF ~d.visible \/ d.skin.size[1] = RI(0) \/ d.skin.size[2] = RI(0) THEN d
    ELSE UpdateCPURenderAttributes(d)

NeedsConvexHullPoints(d) ==
    ~d.hasConvexHullPoints \/ d.convexHullDirty \/ Len(d.convexHullPoints) = 0

SetConvexHullPoints(d, points) ==
    [d EXCEPT !.hasConvexHullPoints = TRUE, !.convexHullPoints = points,
              !.convexHullDirty = FALSE,
              !.transformedHullPoints = [k \in 1..Len(points) |-> Vec2Create],
              !.transformedHullDirty = TRUE]

\* _getTransformedHullPoints, on a drawable whose transform is calculated.
GetTransformedHullPoints(d) ==
    IF ~d.transformedHullDirty THEN d
    ELSE [d EXCEPT !.transformedHullPoints =
                       [k \in 1..Len(d.convexHullPoints) |->
                           TransformMat2d(d.convexHullPoints[k],
                                          Mat2dScale(d.transformMatrix,
                                                     <<RI(d.skin.sizeRatio), RI(d.skin.sizeRatio)>>))],
                   !.transformedHullDirty = FALSE]

\* Drawable.getBounds, when the hull points are known: the drawable it
\* leaves, and the rectangle it returns.
AfterGetBounds(d) == GetTransformedHullPoints(DrawableGetTransform(d))
DrawableGetBounds(d) == InitFromPointsAABB(AfterGetBounds(d).transformedHullPoints)

\* Drawable.getAABB: the drawable it leaves, and the rectangle it returns.
SetAABBPoints(d) ==
    IF d.AABBDirty
    THEN [d EXCEPT !.aabbPoints =
                       <<@[1],
                         <<RMul(d.skin.size[1], RI(d.skin.sizeRatio)), RI(0)>>,
                         <<RMul(d.skin.size[1], RI(d.skin.sizeRatio)),
                           RMul(d.skin.size[2], RI(d.skin.sizeRatio))>>,
                         <<RI(0), RMul(d.skin.size[2], RI(d.skin.sizeRatio))>>>>]
    ELSE d
AfterGetAABB(d) == SetAABBPoints(DrawableGetTransform(d))
TransformedAABBPoints(d) == [k \in 1..4 |-> TransformMat2d(d.aabbPoints[k], d.transformMatrix)]
DrawableGetAABB(d) == InitFromPointsAABB(TransformedAABBPoints(AfterGetAABB(d)))

\* Drawable.getFastBounds
AfterGetFastBounds(d) == IF ~NeedsConvexHullPoints(d) THEN AfterGetBounds(d) ELSE AfterGetAABB(d)
GetFastBounds(d) == IF ~NeedsConvexHullPoints(d) THEN DrawableGetBounds(d) ELSE DrawableGetAABB(d)

\* RenderCanvas.getBounds: the hull is extracted and handed over if needed.
WithConvexHullPoints(d) ==
    IF NeedsConvexHullPoints(d)
    THEN SetConvexHullPoints(AfterConvexHullPoints(d), GetConvexHullPointsForDrawable(d))
    ELSE d
AfterRendererGetBounds(d) == AfterGetFastBounds(WithConvexHullPoints(d))
RendererGetBounds(d) == GetFastBounds(WithConvexHullPoints(d))

-----------------------------------------------------------------------------
(* The hull component: one drawable wearing a BitmapSkin whose bitmap,     *)
(* visibility and position change, and the two bounds queries.             *)

HullBitmapInputs == {b \in BitmapInputs : b.isImageData}
CostumeResolutionInputs == {1, DefaultCostumeResolution}
ZeroRect == [left |-> RI(0), right |-> RI(0), bottom |-> RI(0), top |-> RI(0)]

\* createBitmapSkin(bitmapData, costumeResolution), then updateDrawableSkinId
\* on the drawable, which has no skin yet.
WearNewBitmapSkin(bitmapData, costumeResolution) ==
    /\ hullDrawable.skin.kind = "null"
    /\ hullDrawable' = DrawableSetSkin(hullDrawable,
                                       SetBitmap(NewBitmapSkin(0), bitmapData, costumeResolution))
    /\ hullRet' = [op |-> "updateDrawableSkinId", bounds |-> ZeroRect]

HullUpdateVisible(visible) ==
    /\ hullDrawable' = DrawableUpdateVisible(hullDrawable, visible)
    /\ hullRet' = [op |-> "updateVisible", bounds |-> ZeroRect]

HullUpdatePosition(position) ==
    /\ hullDrawable' = DrawableUpdatePosition(hullDrawable, position)
    /\ hullRet' = [op |-> "updatePosition", bounds |-> ZeroRect]

\* RenderCanvas.getBounds(drawableID), on a drawable that has a skin
QueryGetBounds ==
    /\ hullDrawable.skin.kind = "bitmap"
    /\ hullDrawable' = AfterRendererGetBounds(hullDrawable)
    /\ hullRet' = [op |-> "getBounds", bounds |-> RendererGetBounds(hullDrawable)]

\* Drawable.getAABB(), on a drawable that has a skin
QueryGetAABB ==
    /\ hullDrawable.skin.kind = "bitmap"
    /\ hullDrawable' = AfterGetAABB(hullDrawable)
    /\ hullRet' = [op |-> "getAABB", bounds |-> DrawableGetAABB(hullDrawable)]

\* createDrawable
InitHull ==
    /\ hullDrawable = DrawableSetSkin(ConstructDrawable(0), NullSkin)
    /\ hullRet = [op |-> "createDrawable", bounds |-> ZeroRect]

OnlyHull == UNCHANGED <<dlVars, silVars, drwVars, colVars, touchVars, readyVars, pickVars, missVars, skinVars, altVars>>

NextHull ==
    \/ \E bitmapData \in HullBitmapInputs, costumeResolution \in CostumeResolutionInputs :
           WearNewBitmapSkin(bitmapData, costumeResolution) /\ OnlyHull
    \/ \E visible \in BOOLEAN : HullUpdateVisible(visible) /\ OnlyHull
    \/ \E position \in PositionInputs : HullUpdatePosition(position) /\ OnlyHull
    \/ QueryGetBounds /\ OnlyHull
    \/ QueryGetAABB /\ OnlyHull

\* The silhouette pixels with alpha above 0, as <<x, y>>.
OpaquePixels(sil) ==
    {xy \in (0..(sil.width - 1)) \X (0..(sil.height - 1)) : GetPoint(sil, xy[1], xy[2]) > 0}

\* The centre of silhouette pixel <<x, y>> in native-size object space.
PixelCentre(skin, xy) ==
    <<RDiv(RMul(RAdd(RI(xy[1]), R(1, 2)), skin.size[1]), RI(skin.silhouette.width)),
      RDiv(RMul(RAdd(RI(xy[2]), R(1, 2)), skin.size[2]), RI(skin.silhouette.height))>>

\* A point lies in the convex polygon: within its bounding box and on one
\* side of (or on) every edge.
InsidePolygon(P, points) ==
    /\ Len(points) > 0
    /\ RLe(InitFromPointsAABB(points).left, P[1]) /\ RLe(P[1], InitFromPointsAABB(points).right)
    /\ RLe(InitFromPointsAABB(points).bottom, P[2]) /\ RLe(P[2], InitFromPointsAABB(points).top)
    /\ \/ \A k \in 1..Len(points) :
              Determinant(points[k], points[(k % Len(points)) + 1], P)[1] >= 0
       \/ \A k \in 1..Len(points) :
              Determinant(points[k], points[(k % Len(points)) + 1], P)[1] <= 0

\* Twice the signed area of the polygon; by the convention of the
\* extractor's determinant it is negative for a clockwise polygon.
SignedArea2(points) ==
    LET Cross(k) == RSub(RMul(points[k][1], points[(k % Len(points)) + 1][2]),
                         RMul(points[(k % Len(points)) + 1][1], points[k][2]))
        Sum[k \in 0..Len(points)] == IF k = 0 THEN RI(0) ELSE RAdd(Sum[k - 1], Cross(k))
    IN  Sum[Len(points)]

FullyOpaque(sil) ==
    /\ sil.hasColorData /\ sil.width > 0 /\ sil.height > 0
    /\ \A xy \in (0..(sil.width - 1)) \X (0..(sil.height - 1)) : GetPoint(sil, xy[1], xy[2]) = 255

Untransformed(d) == d.position = <<0, 0>> /\ d.direction = 90 /\ d.scale = <<100, 100>>

\* The hull just extracted for a visible drawable.
HullExtracted == hullRet.op = "getBounds" /\ hullDrawable.visible

\* C8: for a visible drawable, the centre of every silhouette pixel with
\* alpha above 0, mapped to native-size object space, lies inside the hull
\* polygon, at every costume resolution.
C8_OpaquePixelsInsideHull ==
    HullExtracted
    => \A xy \in OpaquePixels(hullDrawable.skin.silhouette) :
           InsidePolygon(PixelCentre(hullDrawable.skin, xy), hullDrawable.convexHullPoints)

\* The silhouette pixel row that holds a point of native-size object space.
PixelRowOf(skin, P) == RFloor(RDiv(RMul(P[2], RI(skin.silhouette.height)), skin.size[2]))

\* The pixel row has a pixel with alpha above 0.
RowHasOpaquePixel(sil, y) == \E xy \in OpaquePixels(sil) : xy[2] = y

\* C27: every vertex of the hull extracted lies on a pixel row that has at
\* least one pixel with alpha above 0, and a fully transparent silhouette
\* yields an empty hull, with which needsConvexHullPoints() stays true.
C27_HullVerticesOnOpaqueRows ==
    HullExtracted
    => /\ \A k \in 1..Len(hullDrawable.convexHullPoints) :
              RowHasOpaquePixel(hullDrawable.skin.silhouette,
                                PixelRowOf(hullDrawable.skin, hullDrawable.convexHullPoints[k]))
       /\ OpaquePixels(hullDrawable.skin.silhouette) = {}
              => /\ hullDrawable.convexHullPoints = <<>>
                 /\ NeedsConvexHullPoints(hullDrawable)

\* C28: the hull point list extracted has no repeated vertex: every point
\* differs from the next one, across the seam between the left chain and the
\* reversed right chain and from the last point back to the first.
C28_NoRepeatedHullVertex ==
    HullExtracted
    => \A k \in 1..Len(hullDrawable.convexHullPoints) :
           Len(hullDrawable.convexHullPoints) > 1
           => hullDrawable.convexHullPoints[k]
                  # hullDrawable.convexHullPoints[(k % Len(hullDrawable.convexHullPoints)) + 1]

\* C9: the hull of a fully opaque W x H silhouette has exactly 4 vertices
\* (fewer when W or H is 1), they are the corners of the skin's native-size
\* rectangle, and they run clockwise.
C9_RectangleHullIsCorners ==
    (HullExtracted /\ FullyOpaque(hullDrawable.skin.silhouette))
    => /\ IF hullDrawable.skin.silhouette.width > 1 /\ hullDrawable.skin.silhouette.height > 1
          THEN Len(hullDrawable.convexHullPoints) = 4
          ELSE Len(hullDrawable.convexHullPoints) < 4
       /\ {hullDrawable.convexHullPoints[k] : k \in 1..Len(hullDrawable.convexHullPoints)}
              \subseteq {<<RI(0), RI(0)>>, <<hullDrawable.skin.size[1], RI(0)>>,
                         <<hullDrawable.skin.size[1], hullDrawable.skin.size[2]>>,
                         <<RI(0), hullDrawable.skin.size[2]>>}
       /\ SignedArea2(hullDrawable.convexHullPoints)[1] <= 0

\* C10: for an untransformed visible drawable whose skin is a fully opaque
\* rectangle, the rectangle getBounds returns equals the one getAABB returns.
C10_BoundsEqualAABB ==
    (HullExtracted /\ FullyOpaque(hullDrawable.skin.silhouette) /\ Untransformed(hullDrawable))
    => hullRet.bounds = DrawableGetAABB(hullDrawable)

-----------------------------------------------------------------------------
(* Touch queries: RenderCanvas.isTouchingDrawables on a scene of two       *)
(* drawables that wear the same square skin.                               *)

StageXLeft == -240
StageXRight == 240
StageYBottom == -180
StageYTop == 180

NoBounds == [isNull |-> TRUE, rect |-> ZeroRect]
SomeBounds(rect) == [isNull |-> FALSE, rect |-> rect]

\* The rectangle _touchingBounds ends with, null when it has no width or height.
NonEmptyBounds(rect) ==
    IF RectWidth(rect) = RI(0) \/ RectHeight(rect) = RI(0) THEN NoBounds ELSE SomeBounds(rect)

\* _touchingBounds: a BitmapSkin always has a texture to give.
TouchingBounds(d) ==
    IF d.skin.kind # "bitmap" THEN NoBounds
    ELSE NonEmptyBounds(RectSnapToInt(
             RectClamp(GetFastBounds(d), RI(StageXLeft), RI(StageXRight),
                       RI(StageYBottom), RI(StageYTop))))

\* The drawable a candidate is after _candidatesTouching has looked at it.
CandidateLookedAt(d) == AfterGetFastBounds(UpdateCPURenderAttributes(d))

\* _candidatesTouching, for bounds that are not null: the candidates other
\* than the drawable itself that have a skin, are visible, and whose bounds,
\* snapped to integers, intersect the bounds; with each its intersection.
CandidatesTouching(scene, bounds, drawableID, candidateIDs) ==
    {[drawable |-> CandidateLookedAt(scene[id]),
      intersection |-> RectIntersect(bounds, RectSnapToInt(GetFastBounds(CandidateLookedAt(scene[id]))))] :
        id \in {c \in candidateIDs \ {drawableID} :
                   /\ scene[c].skin.kind = "bitmap" /\ scene[c].visible
                   /\ RectIntersects(bounds,
                                     RectSnapToInt(GetFastBounds(CandidateLookedAt(scene[c]))))}}

\* _candidatesBounds: the union of the intersections.
CandidatesBounds(candidates) ==
    [left |-> MinOf({c.intersection.left : c \in candidates}),
     right |-> MaxOf({c.intersection.right : c \in candidates}),
     bottom |-> MinOf({c.intersection.bottom : c \in candidates}),
     top |-> MaxOf({c.intersection.top : c \in candidates})]

\* The two loops over the integer points of the bounds: some point touches
\* the drawable and one of the candidates.
SomePointTouchesBoth(primary, candidates, bounds) ==
    \E x \in RFloor(bounds.left)..RFloor(bounds.right),
       y \in RFloor(bounds.bottom)..RFloor(bounds.top) :
        /\ DrawableIsTouching(primary, <<x, y>>)
        /\ \E c \in candidates : DrawableIsTouching(c.drawable, <<x, y>>)

\* isTouchingDrawables without the test of the drawable's own visibility.
TouchesCandidatesWhenHidden(d, candidates) ==
    /\ candidates # {}
    /\ SomePointTouchesBoth(UpdateCPURenderAttributes(AfterGetFastBounds(d)), candidates,
                            CandidatesBounds(candidates))

\* isTouchingDrawables, once the candidates are known.
TouchesCandidates(d, candidates) ==
    /\ candidates # {}
    /\ d.visible
    /\ SomePointTouchesBoth(UpdateCPURenderAttributes(AfterGetFastBounds(d)), candidates,
                            CandidatesBounds(candidates))

\* isTouchingDrawables(drawableID, candidateIDs): invisible candidates are
\* dropped first.
IsTouchingDrawables(scene, drawableID, candidateIDs) ==
    /\ ~TouchingBounds(scene[drawableID]).isNull
    /\ \E candidates \in
           {CandidatesTouching(scene, TouchingBounds(scene[drawableID]).rect, drawableID,
                               {c \in candidateIDs : scene[c].visible})} :
           TouchesCandidates(scene[drawableID], candidates)

\* The scene the call leaves: the drawable's bounds were asked for, the
\* candidates were looked at if the bounds were not null, and the drawable's
\* CPU attributes were updated if the scan began.
SceneAfterIsTouchingDrawables(scene, drawableID, candidateIDs) ==
    [id \in DOMAIN scene |->
        IF id = drawableID
        THEN IF scene[id].skin.kind # "bitmap" THEN scene[id]
             ELSE IF /\ ~TouchingBounds(scene[id]).isNull
                     /\ scene[id].visible
                     /\ CandidatesTouching(scene, TouchingBounds(scene[id]).rect, id,
                                           {c \in candidateIDs : scene[c].visible}) # {}
                  THEN UpdateCPURenderAttributes(AfterGetFastBounds(scene[id]))
                  ELSE AfterGetFastBounds(scene[id])
        ELSE IF /\ ~TouchingBounds(scene[drawableID]).isNull
                /\ id \in candidateIDs /\ scene[id].visible /\ scene[id].skin.kind = "bitmap"
             THEN CandidateLookedAt(scene[id])
             ELSE scene[id]]

\* Inputs: the square skins, as <<side of the bitmap, costume resolution>>,
\* and the positions the second drawable is moved to.
SquareSkinInputs == {<<10, 1>>, <<10, DefaultCostumeResolution>>}
TouchPositionInputs == {<<5, 5>>, <<20, 20>>, <<10, 0>>, <<6, 0>>, <<0, 0 - 11>>}
SceneIds == {0, 1}

\* createBitmapSkin once, updateDrawableSkinId on both drawables.
WearSquareSkin(side, costumeResolution) ==
    /\ \A id \in SceneIds : touchScene[id].skin.kind = "null"
    /\ touchScene' = [id \in SceneIds |->
                         DrawableSetSkin(touchScene[id],
                                         SetBitmap(NewBitmapSkin(0), OpaqueBitmap(side, side),
                                                   costumeResolution))]
    /\ touchRet' = [op |-> "updateDrawableSkinId", touching |-> FALSE, id |-> ID_NONE]

\* updateDrawablePosition on the second drawable
MoveOther(position) ==
    /\ touchScene' = [touchScene EXCEPT ![1] =
                         DrawableUpdatePosition(@, <<RI(position[1]), RI(position[2])>>)]
    /\ touchRet' = [op |-> "updateDrawablePosition", touching |-> FALSE, id |-> ID_NONE]

\* updateDrawableVisible
ShowOrHide(id, visible) ==
    /\ touchScene' = [touchScene EXCEPT ![id] = DrawableUpdateVisible(@, visible)]
    /\ touchRet' = [op |-> "updateDrawableVisible", touching |-> FALSE, id |-> ID_NONE]

\* isTouchingDrawables(id), the candidates left at their default: the draw list.
QueryIsTouchingDrawables(id) ==
    /\ touchScene' = SceneAfterIsTouchingDrawables(touchScene, id, SceneIds)
    /\ touchRet' = [op |-> "isTouchingDrawables",
                    touching |-> IsTouchingDrawables(touchScene, id, SceneIds), id |-> id]

\* createDrawable, twice
InitTouch ==
    /\ touchScene = [id \in SceneIds |-> DrawableSetSkin(ConstructDrawable(id), NullSkin)]
    /\ touchRet = [op |-> "createDrawable", touching |-> FALSE, id |-> ID_NONE]

OnlyTouch == UNCHANGED <<dlVars, silVars, drwVars, colVars, hullVars, readyVars, pickVars, missVars, skinVars, altVars>>

NextTouch ==
    \/ \E skin \in SquareSkinInputs : WearSquareSkin(skin[1], skin[2]) /\ OnlyTouch
    \/ \E position \in TouchPositionInputs : MoveOther(position) /\ OnlyTouch
    \/ \E id \in SceneIds, visible \in BOOLEAN : ShowOrHide(id, visible) /\ OnlyTouch
    \/ \E id \in SceneIds : QueryIsTouchingDrawables(id) /\ OnlyTouch

\* The two squares of the scene, visible and wearing the skin, were just
\* asked whether they touch.
SquaresAsked ==
    /\ touchRet.op = "isTouchingDrawables"
    /\ \A id \in SceneIds : touchScene[id].visible /\ touchScene[id].skin.kind = "bitmap"

\* C5: of two visible drawables with the same opaque square skin, scale
\* 100, direction 90, one at (0,0): isTouchingDrawables is true with the
\* other at (5,5), false with it at (20,20), and false whenever the two
\* squares' stage-space boxes are disjoint.
C5_SquaresTouch ==
    SquaresAsked
    => /\ touchScene[1].position = <<5, 5>> => touchRet.touching
       /\ touchScene[1].position = <<20, 20>> => ~touchRet.touching
       /\ RectDisjoint(DrawableGetAABB(touchScene[0]), DrawableGetAABB(touchScene[1]))
              => ~touchRet.touching

\* The candidates that can count for a query by drawable id: visible, other
\* than id, with a box that meets id's box.
CountingCandidates(id) ==
    {c \in SceneIds \ {id} :
        /\ touchScene[c].visible
        /\ touchScene[c].skin.kind = "bitmap" /\ touchScene[id].skin.kind = "bitmap"
        /\ RectIntersects(DrawableGetAABB(touchScene[id]), DrawableGetAABB(touchScene[c]))}

C5_Witness ==
    SquaresAsked /\ touchScene[1].position = <<5, 5>> /\ touchRet.touching

-----------------------------------------------------------------------------
(* Tight bounds need hull points: one Drawable, its shape-affecting        *)
(* changes, the hull points a caller supplies, and the tight-bounds        *)
(* queries.                                                                *)

BubbleSlice == 8

\* getBounds / getBoundsForBubble throw when needsConvexHullPoints().
BoundsThrow(d) == NeedsConvexHullPoints(d)

\* getBoundsForBubble, when the hull points are known: the box of the
\* transformed hull points in the top slice.
TopSlice(points) ==
    SelectSeq(points,
              LAMBDA p : RLt(RSub(MaxOf({points[k][2] : k \in 1..Len(points)}), RI(BubbleSlice)),
                             p[2]))
DrawableGetBoundsForBubble(d) == InitFromPointsAABB(TopSlice(AfterGetBounds(d).transformedHullPoints))

\* Inputs
ReadySkinInputs ==
    {NullSkin, SetBitmap(NewBitmapSkin(0), OpaqueBitmap(2, 2), 1)}
ReadyHullInputs ==
    {<<>>, <<<<R(1, 2), R(1, 2)>>, <<R(1, 2), R(3, 2)>>, <<R(3, 2), R(1, 2)>>>>}
ReadyPositionInputs == {<<R(7, 2), RI(0 - 20)>>}
ReadyDirectionInputs == {0}
ReadyScaleInputs == {<<200, 50>>}
ReadyEffectInputs == {<<"ghost", 50>>, <<"fisheye", 50>>}

\* The history kept beside the drawable.  hullOnHand: a non-empty list of
\* hull points was supplied and no shape-affecting change came after it.
ReadyRet(op, hullOnHand, threw, bounds) ==
    [op |-> op, hullOnHand |-> hullOnHand, threw |-> threw, bounds |-> bounds,
     moved |-> readyRet.moved \/ (op \in {"updatePosition", "updateDirection", "updateScale"}
                                   /\ readyRet.hullOnHand),
     last |-> readyRet.last]

\* The update operations, and the history of the argument each was last
\* called with (<<>> before its first call).
UpdateOps == {"updatePosition", "updateDirection", "updateScale", "updateVisible", "updateEffect"}
NeverCalled == [op \in UpdateOps |-> <<>>]
ReadyUpdateRet(op, argument, hullOnHand) ==
    [ReadyRet(op, hullOnHand, FALSE, ZeroRect) EXCEPT !.last[op] = argument]

\* drawable.skin = newSkin
ReadySetSkin(newSkin) ==
    /\ readyDrawable' = DrawableSetSkin(readyDrawable, newSkin)
    /\ readyRet' = ReadyRet("setSkin",
                            readyRet.hullOnHand /\ readyDrawable.skin.kind = newSkin.kind
                                                /\ readyDrawable.skin.id = newSkin.id,
                            FALSE, ZeroRect)

\* The skin emits WasAltered: RenderCanvas._skinWasAltered calls the
\* drawable's _skinWasAltered.
ReadySkinAltered ==
    /\ readyDrawable.skin.kind = "bitmap"
    /\ readyDrawable' = SkinWasAltered(readyDrawable)
    /\ readyRet' = ReadyRet("skinWasAltered", FALSE, FALSE, ZeroRect)

ReadyUpdateVisible(visible) ==
    /\ readyDrawable' = DrawableUpdateVisible(readyDrawable, visible)
    /\ readyRet' = ReadyUpdateRet("updateVisible", <<visible>>,
                                  readyRet.hullOnHand /\ readyDrawable.visible = visible)

ReadyUpdateEffect(effectName, rawValue) ==
    /\ readyDrawable' = DrawableUpdateEffect(readyDrawable, effectName, rawValue)
    /\ readyRet' = ReadyUpdateRet("updateEffect", <<effectName, rawValue>>,
                                  readyRet.hullOnHand /\ ~EffectShapeChanges(effectName))

ReadyUpdatePosition(position) ==
    /\ readyDrawable' = DrawableUpdatePosition(readyDrawable, position)
    /\ readyRet' = ReadyUpdateRet("updatePosition", position, readyRet.hullOnHand)

ReadyUpdateDirection(direction) ==
    /\ readyDrawable' = DrawableUpdateDirection(readyDrawable, direction)
    /\ readyRet' = ReadyUpdateRet("updateDirection", <<direction>>, readyRet.hullOnHand)

ReadyUpdateScale(scale) ==
    /\ readyDrawable' = DrawableUpdateScale(readyDrawable, scale)
    /\ readyRet' = ReadyUpdateRet("updateScale", scale, readyRet.hullOnHand)

\* setConvexHullPoints(points): the renderer supplies the points of a
\* drawable that has a skin.
ReadySetConvexHullPoints(points) ==
    /\ readyDrawable.skin.kind = "bitmap"
    /\ readyDrawable' = SetConvexHullPoints(readyDrawable, points)
    /\ readyRet' = [ReadyRet("setConvexHullPoints", points # <<>>, FALSE, ZeroRect)
                       EXCEPT !.moved = FALSE]

\* getBounds()
ReadyGetBounds ==
    IF BoundsThrow(readyDrawable)
    THEN /\ readyDrawable' = readyDrawable
         /\ readyRet' = ReadyRet("getBounds", readyRet.hullOnHand, TRUE, ZeroRect)
    ELSE /\ readyDrawable' = AfterGetBounds(readyDrawable)
         /\ readyRet' = ReadyRet("getBounds", readyRet.hullOnHand, FALSE,
                                 DrawableGetBounds(readyDrawable))

\* getBoundsForBubble()
ReadyGetBoundsForBubble ==
    IF BoundsThrow(readyDrawable)
    THEN /\ readyDrawable' = readyDrawable
         /\ readyRet' = ReadyRet("getBoundsForBubble", readyRet.hullOnHand, TRUE, ZeroRect)
    ELSE /\ readyDrawable' = AfterGetBounds(readyDrawable)
         /\ readyRet' = ReadyRet("getBoundsForBubble", readyRet.hullOnHand, FALSE,
                                 DrawableGetBoundsForBubble(readyDrawable))

\* createDrawable
InitReady ==
    /\ readyDrawable = DrawableSetSkin(ConstructDrawable(0), NullSkin)
    /\ readyRet = [op |-> "createDrawable", hullOnHand |-> FALSE, threw |-> FALSE,
                   bounds |-> ZeroRect, moved |-> FALSE, last |-> NeverCalled]

OnlyReady == UNCHANGED <<dlVars, silVars, drwVars, colVars, hullVars, touchVars, pickVars, missVars, skinVars, altVars>>

NextReady ==
    \/ \E newSkin \in ReadySkinInputs : ReadySetSkin(newSkin) /\ OnlyReady
    \/ ReadySkinAltered /\ OnlyReady
    \/ \E visible \in BOOLEAN : ReadyUpdateVisible(visible) /\ OnlyReady
    \/ \E effect \in ReadyEffectInputs : ReadyUpdateEffect(effect[1], effect[2]) /\ OnlyReady
    \/ \E position \in ReadyPositionInputs : ReadyUpdatePosition(position) /\ OnlyReady
    \/ \E direction \in ReadyDirectionInputs : ReadyUpdateDirection(direction) /\ OnlyReady
    \/ \E scale \in ReadyScaleInputs : ReadyUpdateScale(scale) /\ OnlyReady
    \/ \E points \in ReadyHullInputs : ReadySetConvexHullPoints(points) /\ OnlyReady
    \/ ReadyGetBounds /\ OnlyReady
    \/ ReadyGetBoundsForBubble /\ OnlyReady

C18_SameArgumentIsNoOp ==
    [][(readyRet'.op \in UpdateOps /\ readyRet'.last[readyRet'.op] = readyRet.last[readyRet'.op])
        => readyDrawable' = readyDrawable]_vars

-----------------------------------------------------------------------------
(* RenderCanvas.pick on a scene of two drawables.                          *)

MaxTouchSize == 3

\* Rectangle.initFromBounds
InitFromBounds(left, right, bottom, top) ==
    [left |-> RI(left), right |-> RI(right), bottom |-> RI(bottom), top |-> RI(top)]

\* _nativeSize, as setStageSize leaves it
NativeSize == <<Abs(StageXRight - StageXLeft), Abs(StageYBottom - StageYTop)>>

\* The touch size in Scratch units: rounded, at least 1, at most MAX_TOUCH_SIZE.
TouchSize(size, clientToScratch) ==
    Max2(1, Min2(MathRound(RMul(RI(size), clientToScratch)), MaxTouchSize))

\* xOfs and yOfs
TouchOffset(size) == IF size % 2 # 0 THEN RI(0) ELSE R(0 - 1, 2)

\* clientSpaceToScratchBounds, given the touch size in Scratch units.
ScratchBoundsOf(centerX, centerY, width, height, clientToScratchX, clientToScratchY) ==
    InitFromBounds(
        RFloor(RAdd(RAdd(RI(StageXLeft),
                         RSub(RMul(RI(centerX), clientToScratchX), R(width - 1, 2))),
                    TouchOffset(width))),
        RFloor(RAdd(RAdd(RAdd(RI(StageXLeft),
                              RSub(RMul(RI(centerX), clientToScratchX), R(width - 1, 2))),
                         TouchOffset(width)), RI(width - 1))),
        RCeil(RAdd(RSub(RI(StageYTop),
                        RAdd(RMul(RI(centerY), clientToScratchY), R(height - 1, 2))),
                   TouchOffset(height))),
        RCeil(RAdd(RAdd(RSub(RI(StageYTop),
                             RAdd(RMul(RI(centerY), clientToScratchY), R(height - 1, 2))),
                        TouchOffset(height)), RI(height - 1))))

\* clientSpaceToScratchBounds(centerX, centerY, width, height) on a canvas of
\* the given client size.
ClientSpaceToScratchBounds(centerX, centerY, width, height, clientSize) ==
    ScratchBoundsOf(centerX, centerY,
                    TouchSize(width, R(NativeSize[1], clientSize[1])),
                    TouchSize(height, R(NativeSize[2], clientSize[2])),
                    R(NativeSize[1], clientSize[1]), R(NativeSize[2], clientSize[2]))

\* pick's filter: a candidate stays when it is visible and its fast bounds
\* meet the picked rectangle.
PickInRange(d, bounds) == d.visible /\ RectIntersects(bounds, GetFastBounds(d))
PickCandidates(scene, bounds, candidateIDs) ==
    SelectSeq(candidateIDs, LAMBDA id : PickInRange(scene[id], bounds))

\* The drawables the filter leaves: the fast bounds of a visible candidate
\* were asked for, and the CPU attributes of one in range were updated.
SceneAfterPickFilter(scene, bounds, candidateIDs) ==
    [id \in DOMAIN scene |->
        IF \E k \in 1..Len(candidateIDs) : candidateIDs[k] = id /\ scene[id].visible
        THEN IF PickInRange(scene[id], bounds)
             THEN UpdateCPURenderAttributes(AfterGetFastBounds(scene[id]))
             ELSE AfterGetFastBounds(scene[id])
        ELSE scene[id]]

\* The candidate credited at a point were the walk to go from the first
\* candidate to the last.
CreditedFromBottom(scene, candidateIDs, worldPos, d) ==
    IF \E k \in 1..d : DrawableIsTouching(scene[candidateIDs[k]], worldPos)
    THEN CHOOSE k \in 1..d :
             /\ DrawableIsTouching(scene[candidateIDs[k]], worldPos)
             /\ \A j \in 1..(k - 1) : ~DrawableIsTouching(scene[candidateIDs[j]], worldPos)
    ELSE 0

\* The candidate credited at a point: walking the candidates from the last
\* to the first, the first one that touches; 0 when none does.
RECURSIVE CreditedIndex(_, _, _, _)
CreditedIndex(scene, candidateIDs, worldPos, d) ==
    IF d = 0 THEN 0
    ELSE IF DrawableIsTouching(scene[candidateIDs[d]], worldPos) THEN d
    ELSE CreditedIndex(scene, candidateIDs, worldPos, d - 1)

\* The id credited at each point of the rectangle, ID_NONE when no
\* candidate touches there.
Credits(scene, bounds, candidateIDs) ==
    [worldPos \in (RFloor(bounds.left)..RFloor(bounds.right))
                  \X (RFloor(bounds.bottom)..RFloor(bounds.top)) |->
        IF CreditedIndex(scene, candidateIDs, worldPos, Len(candidateIDs)) = 0 THEN ID_NONE
        ELSE candidateIDs[CreditedIndex(scene, candidateIDs, worldPos, Len(candidateIDs))]]

\* hits[id] after the loops over the rectangle's points
HitsOf(scene, credits) ==
    [id \in DOMAIN scene |-> Cardinality({worldPos \in DOMAIN credits : credits[worldPos] = id})]
PickHits(scene, bounds, candidateIDs) == HitsOf(scene, Credits(scene, bounds, candidateIDs))

\* for (hitID in hits): the integer keys in ascending order, then the key
\* of ID_NONE, whose count is 0; a key replaces the current hit when its
\* count is strictly greater.
RECURSIVE ScanHits(_, _, _, _)
ScanHits(hits, ids, hit, hitCount) ==
    IF ids = {} THEN hit
    ELSE LET hitID == CHOOSE i \in ids : \A j \in ids : i <= j
         IN  IF hits[hitID] > hitCount
             THEN ScanHits(hits, ids \ {hitID}, hitID, hits[hitID])
             ELSE ScanHits(hits, ids \ {hitID}, hit, hitCount)

\* What pick returns: false, or a number.
PickedFalse == [isNumber |-> FALSE, id |-> ID_NONE]
PickedNumber(id) == [isNumber |-> TRUE, id |-> id]

PickResult(candidateIDs, hits) ==
    IF Len(candidateIDs) = 0 THEN PickedFalse
    ELSE PickedNumber(ScanHits(hits, {id \in DOMAIN hits : hits[id] > 0}, ID_NONE, 0))

\* Inputs
PickSceneIds == {0, 1}
\* A 4x4 bitmap whose last column is transparent, at costume resolution 1.
PickBitmap ==
    [isImageData |-> TRUE, width |-> 4, height |-> 4,
     data |-> [k \in 1..16 |-> IF k % 4 = 0 THEN TransparentPixel ELSE OpaquePixel]]
PickSkinInputs == {<<PickBitmap, 1>>}
PickPositionInputs == {<<2, 0>>, <<40, 40>>}
PickCenterInputs == {<<240, 180>>, <<243, 180>>, <<238, 180>>, <<241, 180>>, <<300, 100>>}
PickTouchInputs == {1, MaxTouchSize}
PickCandidateInputs == {<<0, 1>>, <<1, 0>>}
ClientSizeInputs == {NativeSize}
NoHits == [id \in PickSceneIds |-> 0]

\* createBitmapSkin once, updateDrawableSkinId on both drawables.
PickWearSkin(bitmapData, costumeResolution) ==
    /\ \A id \in PickSceneIds : pickScene[id].skin.kind = "null"
    /\ pickScene' = [id \in PickSceneIds |->
                        DrawableSetSkin(pickScene[id],
                                        SetBitmap(NewBitmapSkin(0), bitmapData,
                                                  costumeResolution))]
    /\ pickRet' = [op |-> "updateDrawableSkinId", bounds |-> ZeroRect, given |-> <<>>,
                   candidates |-> <<>>, hits |-> NoHits, result |-> PickedFalse]

\* updateDrawablePosition on the second drawable
PickMoveOther(position) ==
    /\ pickScene' = [pickScene EXCEPT ![1] =
                        DrawableUpdatePosition(@, <<RI(position[1]), RI(position[2])>>)]
    /\ pickRet' = [op |-> "updateDrawablePosition", bounds |-> ZeroRect, given |-> <<>>,
                   candidates |-> <<>>, hits |-> NoHits, result |-> PickedFalse]

\* updateDrawableVisible
PickShowOrHide(id, visible) ==
    /\ pickScene' = [pickScene EXCEPT ![id] = DrawableUpdateVisible(@, visible)]
    /\ pickRet' = [op |-> "updateDrawableVisible", bounds |-> ZeroRect, given |-> <<>>,
                   candidates |-> <<>>, hits |-> NoHits, result |-> PickedFalse]

\* pick(centerX, centerY, touchWidth, touchHeight, candidateIDs), once the
\* rectangle is known: every drawable of the scene wears a skin.
PickIn(bounds, candidateIDs) ==
    /\ \A id \in PickSceneIds : pickScene[id].skin.kind = "bitmap"
    /\ pickScene' = SceneAfterPickFilter(pickScene, bounds, candidateIDs)
    /\ \E candidates \in {PickCandidates(pickScene, bounds, candidateIDs)} :
       \E hits \in {PickHits(pickScene', bounds, candidates)} :
           pickRet' = [op |-> "pick", bounds |-> bounds, given |-> candidateIDs,
                       candidates |-> candidates, hits |-> hits,
                       result |-> PickResult(candidates, hits)]

QueryPick(center, touchSize, candidateIDs, clientSize) ==
    PickIn(ClientSpaceToScratchBounds(center[1], center[2], touchSize, touchSize, clientSize),
           candidateIDs)

\* createDrawable, twice
InitPick ==
    /\ pickScene = [id \in PickSceneIds |-> DrawableSetSkin(ConstructDrawable(id), NullSkin)]
    /\ pickRet = [op |-> "createDrawable", bounds |-> ZeroRect, given |-> <<>>,
                  candidates |-> <<>>, hits |-> NoHits, result |-> PickedFalse]

OnlyPick == UNCHANGED <<dlVars, silVars, drwVars, colVars, hullVars, touchVars, readyVars, missVars, skinVars, altVars>>

NextPick ==
    \/ \E skin \in PickSkinInputs : PickWearSkin(skin[1], skin[2]) /\ OnlyPick
    \/ \E position \in PickPositionInputs : PickMoveOther(position) /\ OnlyPick
    \/ \E id \in PickSceneIds, visible \in BOOLEAN : PickShowOrHide(id, visible) /\ OnlyPick
    \/ \E center \in PickCenterInputs, touchSize \in PickTouchInputs,
          candidateIDs \in PickCandidateInputs, clientSize \in ClientSizeInputs :
           QueryPick(center, touchSize, candidateIDs, clientSize) /\ OnlyPick

\* The ids of a list
IdsOf(list) == {list[k] : k \in 1..Len(list)}

\* C13: pick returns an integer, the id of one of the visible candidates
\* or ID_NONE, also when no candidate is visible and when no candidate's
\* bounds meet the picked rectangle.
C13_PickReturnsId ==
    pickRet.op = "pick"
    => /\ pickRet.result.isNumber
       /\ \/ pickRet.result.id = ID_NONE
          \/ /\ pickRet.result.id \in IdsOf(pickRet.given)
             /\ pickScene[pickRet.result.id].visible

\* C14: each point of the rectangle credits at most one candidate, so the
\* credits sum to at most the number of points; a credited candidate is the
\* last of the candidates that touches its point; when a candidate is
\* credited the result is a candidate with the largest count, which is at
\* least 1; and with a rectangle of one point the result is the last
\* candidate that touches it.
C14_PickTopmostMostHits ==
    (pickRet.op = "pick" /\ \E id \in PickSceneIds : pickRet.hits[id] > 0)
    => /\ pickRet.result.isNumber
       /\ pickRet.result.id \in IdsOf(pickRet.candidates)
       /\ pickRet.hits[pickRet.result.id] >= 1
       /\ \A id \in PickSceneIds : pickRet.hits[id] <= pickRet.hits[pickRet.result.id]
       /\ pickRet.hits[0] + pickRet.hits[1]
              <= (RFloor(RectWidth(pickRet.bounds)) + 1) * (RFloor(RectHeight(pickRet.bounds)) + 1)
       /\ RectWidth(pickRet.bounds) = RI(0) /\ RectHeight(pickRet.bounds) = RI(0)
              => \A k \in 1..Len(pickRet.candidates) :
                     DrawableIsTouching(pickScene[pickRet.candidates[k]],
                                        <<RFloor(pickRet.bounds.left), RFloor(pickRet.bounds.bottom)>>)
                         => \E j \in k..Len(pickRet.candidates) :
                                pickRet.candidates[j] = pickRet.result.id

\* C14's case: a rectangle of several points over two overlapping visible
\* drawables, both credited, one more often than the other, and the result
\* the one with more credits.
C14_Witness ==
    /\ pickRet.op = "pick" /\ Len(pickRet.candidates) = 2
    /\ RectWidth(pickRet.bounds) = RI(2)
    /\ pickRet.hits[0] > 0 /\ pickRet.hits[1] > 0 /\ pickRet.hits[0] # pickRet.hits[1]
    /\ pickRet.result.isNumber
    /\ pickRet.hits[pickRet.result.id] = Max2(pickRet.hits[0], pickRet.hits[1])

-----------------------------------------------------------------------------
(* Calls that name a drawable that was destroyed, or a drawable whose      *)
(* skin was set from a skin id the renderer does not know.                 *)

MissSceneIds == {0, 1}
\* The drawable that is destroyed, and that the calls name.
QueriedIds == {1}

\* _calculateTransform reads this.skin.sizeRatio unless the skin is null:
\* with an undefined skin that is a TypeError.
CalculateTransformThrows(d) ==
    d.skin.kind = "undefined" /\ (d.rotationCenterDirty \/ d.skinScaleDirty)

\* updateMatrix, getTransform, getAABB: `if (this._transformDirty) this._calculateTransform()`
TransformThrows(d) == d.transformDirty /\ CalculateTransformThrows(d)

\* The drawable a throwing _calculateTransform leaves: the rotation matrix
\* was adjusted before the skin was read.
AfterTransformThrows(d) == AdjustRotationMatrix(d)

\* getAABB reads skin.size when _AABBDirty: a TypeError without a skin.
AABBThrows(d) == TransformThrows(d) \/ (d.AABBDirty /\ d.skin.kind # "bitmap")

\* getFastBounds on a drawable that may have no skin
FastBoundsThrows(d) == NeedsConvexHullPoints(d) /\ AABBThrows(d)

\* RenderCanvas.getBounds(drawableID): the drawable is read without a test,
\* and _getConvexHullPointsForDrawable reads drawable.skin.size.
RendererGetBoundsThrows(live, scene, drawableID) ==
    \/ drawableID \notin live
    \/ NeedsConvexHullPoints(scene[drawableID]) /\ scene[drawableID].skin.kind # "bitmap"

\* isTouchingDrawables / isTouchingColor: the candidate filter reads
\* _allDrawables[id]._visible and _touchingBounds reads drawable.skin.
TouchingThrows(live, drawableID, candidateIDs) ==
    candidateIDs \ live # {} \/ drawableID \notin live

\* pick: the filter reads drawable.getVisible() of every candidate and
\* the fast bounds of every visible one.
PickThrows(live, scene, candidateIDs) ==
    \E k \in 1..Len(candidateIDs) :
        \/ candidateIDs[k] \notin live
        \/ scene[candidateIDs[k]].visible /\ FastBoundsThrows(scene[candidateIDs[k]])

\* drawableTouching on a live drawable: some point of the rectangle touches.
DrawableTouchingIn(d, bounds) ==
    \E x \in RFloor(bounds.left)..RFloor(bounds.right),
       y \in RFloor(bounds.bottom)..RFloor(bounds.top) : DrawableIsTouching(d, <<x, y>>)

\* _allSkins: one bitmap skin, id 0; no other id is known.
KnownSkin == SetBitmap(NewBitmapSkin(0), OpaqueBitmap(2, 2), 1)
SkinOfId(skinId) == IF skinId = 0 THEN KnownSkin ELSE UndefinedSkin
SkinIdInputs == {0, 1}
MissPositionInputs == {<<3, 0>>}
MissCenterInputs == {<<240, 180>>}

MissRet(op, id, threw, touching) == [op |-> op, id |-> id, threw |-> threw, touching |-> touching]

\* updateDrawableSkinId(drawableID, skinId)
MissUpdateDrawableSkinId(id, skinId) ==
    /\ missScene' = IF id \in missLive
                    THEN [missScene EXCEPT ![id] = DrawableSetSkin(@, SkinOfId(skinId))]
                    ELSE missScene
    /\ missLive' = missLive
    /\ missRet' = MissRet("updateDrawableSkinId", id, FALSE, FALSE)

\* destroyDrawable(drawableID, group) of a live drawable, with its group
MissDestroyDrawable(id) ==
    /\ id \in missLive
    /\ missLive' = missLive \ {id}
    /\ missScene' = [missScene EXCEPT ![id] = ConstructDrawable(id)]
    /\ missRet' = MissRet("destroyDrawable", id, FALSE, FALSE)

\* updateDrawablePosition(drawableID, position)
MissUpdateDrawablePosition(id, position) ==
    /\ missScene' = IF id \in missLive
                    THEN [missScene EXCEPT ![id] =
                             DrawableUpdatePosition(@, <<RI(position[1]), RI(position[2])>>)]
                    ELSE missScene
    /\ missLive' = missLive
    /\ missRet' = MissRet("updateDrawablePosition", id, FALSE, FALSE)

\* isTouchingDrawables(drawableID), the candidates left at the draw list,
\* which holds the live drawables.
MissIsTouchingDrawables(id) ==
    /\ missLive' = missLive
    /\ IF TouchingThrows(missLive, id, missLive)
       THEN /\ missScene' = missScene
            /\ missRet' = MissRet("isTouchingDrawables", id, TRUE, FALSE)
       ELSE /\ missScene' = SceneAfterIsTouchingDrawables(missScene, id, missLive)
            /\ missRet' = MissRet("isTouchingDrawables", id, FALSE,
                                  IsTouchingDrawables(missScene, id, missLive))

\* isTouchingColor(drawableID, color3b) of a drawable that is gone or has
\* no skin: with no skin _touchingBounds is null and the call returns false.
MissIsTouchingColor(id) ==
    /\ id \notin missLive \/ missScene[id].skin.kind # "bitmap"
    /\ missLive' = missLive
    /\ missScene' = missScene
    /\ missRet' = MissRet("isTouchingColor", id, TouchingThrows(missLive, id, missLive), FALSE)

\* drawableTouching(drawableID, centerX, centerY, 1, 1)
MissDrawableTouching(id, center) ==
    /\ missLive' = missLive
    /\ IF id \notin missLive
       THEN /\ missScene' = missScene
            /\ missRet' = MissRet("drawableTouching", id, FALSE, FALSE)
       ELSE IF TransformThrows(missScene[id])
       THEN /\ missScene' = [missScene EXCEPT ![id] = AfterTransformThrows(@)]
            /\ missRet' = MissRet("drawableTouching", id, TRUE, FALSE)
       ELSE /\ missScene' = [missScene EXCEPT ![id] = UpdateCPURenderAttributes(@)]
            /\ missRet' = MissRet("drawableTouching", id, FALSE,
                                  DrawableTouchingIn(UpdateCPURenderAttributes(missScene[id]),
                                                     ClientSpaceToScratchBounds(center[1], center[2],
                                                                                1, 1, NativeSize)))

\* getBounds(drawableID)
MissGetBounds(id) ==
    /\ missLive' = missLive
    /\ IF RendererGetBoundsThrows(missLive, missScene, id)
       THEN /\ missScene' = missScene
            /\ missRet' = MissRet("getBounds", id, TRUE, FALSE)
       ELSE /\ missScene' = [missScene EXCEPT ![id] = AfterRendererGetBounds(@)]
            /\ missRet' = MissRet("getBounds", id, FALSE, FALSE)

\* pick(centerX, centerY, 1, 1, candidateIDs) with a list that names both
\* drawables of the scene
MissPick(center) ==
    /\ missLive' = missLive
    /\ IF PickThrows(missLive, missScene, <<0, 1>>)
       THEN /\ missScene' = [id \in MissSceneIds |->
                                IF id \in missLive /\ TransformThrows(missScene[id])
                                   /\ \A j \in 0..(id - 1) :
                                          j \in missLive /\ ~FastBoundsThrows(missScene[j])
                                THEN AfterTransformThrows(missScene[id])
                                ELSE missScene[id]]
            /\ missRet' = MissRet("pick", ID_NONE, TRUE, FALSE)
       ELSE /\ missScene' = SceneAfterPickFilter(
                                missScene,
                                ClientSpaceToScratchBounds(center[1], center[2], 1, 1, NativeSize),
                                <<0, 1>>)
            /\ missRet' = MissRet("pick", ID_NONE, FALSE, FALSE)

\* getFencedPositionOfDrawable(drawableID, position) of a drawable that is
\* gone or has no skin: a missing drawable gives the position back, a
\* drawable without a skin fails on drawable._skin.getFenceBounds.
MissGetFencedPosition(id) ==
    /\ id \notin missLive \/ missScene[id].skin.kind # "bitmap"
    /\ missLive' = missLive
    /\ missScene' = missScene
    /\ missRet' = MissRet("getFencedPositionOfDrawable", id, id \in missLive, FALSE)

\* createDrawable, twice
InitMissing ==
    /\ missLive = MissSceneIds
    /\ missScene = [id \in MissSceneIds |-> DrawableSetSkin(ConstructDrawable(id), NullSkin)]
    /\ missRet = MissRet("createDrawable", ID_NONE, FALSE, FALSE)

OnlyMissing == UNCHANGED <<dlVars, silVars, drwVars, colVars, hullVars, touchVars, readyVars, pickVars, skinVars, altVars>>

NextMissing ==
    \/ \E id \in MissSceneIds, skinId \in SkinIdInputs :
           MissUpdateDrawableSkinId(id, skinId) /\ OnlyMissing
    \/ \E id \in QueriedIds : MissDestroyDrawable(id) /\ OnlyMissing
    \/ \E id \in QueriedIds, position \in MissPositionInputs :
           MissUpdateDrawablePosition(id, position) /\ OnlyMissing
    \/ \E id \in QueriedIds : MissIsTouchingDrawables(id) /\ OnlyMissing
    \/ \E id \in QueriedIds : MissIsTouchingColor(id) /\ OnlyMissing
    \/ \E id \in QueriedIds, center \in MissCenterInputs :
           MissDrawableTouching(id, center) /\ OnlyMissing
    \/ \E id \in QueriedIds : MissGetBounds(id) /\ OnlyMissing
    \/ \E center \in MissCenterInputs : MissPick(center) /\ OnlyMissing
    \/ \E id \in QueriedIds : MissGetFencedPosition(id) /\ OnlyMissing

\* The call named a drawable that no longer exists, or one whose skin was
\* set from an unknown skin id.
NamesMissing ==
    IF missRet.op = "pick"
    THEN \E id \in MissSceneIds : id \notin missLive \/ missScene[id].skin.kind = "undefined"
    ELSE /\ missRet.op \in {"isTouchingDrawables", "isTouchingColor", "drawableTouching",
                            "getBounds", "updateDrawablePosition", "updateDrawableSkinId",
                            "getFencedPositionOfDrawable"}
         /\ missRet.id \notin missLive \/ missScene[missRet.id].skin.kind = "undefined"

\* C15: a query or update that names a drawable that no longer exists, or
\* a drawable whose skin was set from a destroyed or unknown skin id, does
\* not throw and a touch query answers false.
C15_MissingIdsAreSafe == NamesMissing => ~missRet.threw /\ ~missRet.touching

\* The visible drawables of the scene that have no skin assigned: their skin
\* is the null createDrawable gave them.
VisibleSkinless ==
    {id \in missLive : missScene[id].visible /\ missScene[id].skin.kind = "null"}

\* C30: pick on a scene that contains a visible drawable with no skin
\* assigned completes without throwing and does not return that drawable's
\* id.
C30_PickSkipsSkinlessDrawable ==
    (missRet.op = "pick" /\ VisibleSkinless # {})
    => ~missRet.threw /\ missRet.id \notin VisibleSkinless

-----------------------------------------------------------------------------
(* Creating and updating skins: RenderCanvas.createBitmapSkin,             *)
(* createSVGSkin, updateBitmapSkin, updateSVGSkin and SVGSkin.setSVG.      *)

MaxSkins == 2

\* new SVGSkin(id, renderer)
NewSVGSkin(id) ==
    [kind |-> "svg", id |-> id, size |-> Vec2Create, sizeRatio |-> SkinSizeRatio,
     rotationCenter |-> Vec2Create, silhouette |-> NewSilhouette, hasTexture |-> FALSE]

\* A skin object as the table holds it: the skin, and the image its SVG
\* renderer is still loading (<<>> when none is), whose load runs the
\* callback given to loadSVG.
SkinEntry(skin) == [skin |-> skin, loading |-> <<>>]

\* The contents supplied.  An SVG is given by what the SVG renderer makes of
\* it: the image it rasterises to (_cachedImage) and its view offset.
TwoPixelImage ==
    [isImageData |-> FALSE, width |-> 2, height |-> 1, data |-> <<OpaquePixel, TransparentPixel>>]
NoAreaImage == [isImageData |-> FALSE, width |-> 0, height |-> 0, data |-> <<>>]
SkinBitmapInputs == {OnePixelBitmap(OpaquePixel), TwoPixelImage, NoAreaImage}
SvgInputs ==
    {[image |-> [OnePixelBitmap(OpaquePixel) EXCEPT !.isImageData = FALSE], viewOffset |-> <<0, 0>>],
     [image |-> TwoPixelImage, viewOffset |-> <<0, 0>>]}

\* The callback setSVG gives to loadSVG: the texture becomes the loaded
\* image, the silhouette is updated from it, the rotation centre is
\* calculated, and WasAltered is emitted.
SvgOnFinish(entry) ==
    [skin |-> [entry.skin EXCEPT
                  !.hasTexture = TRUE,
                  !.silhouette = SilhouetteUpdate(@, entry.loading[1].image),
                  !.rotationCenter =
                      <<RSub(CalculateRotationCenter(entry.skin)[1], RI(entry.loading[1].viewOffset[1])),
                        RSub(CalculateRotationCenter(entry.skin)[2], RI(entry.loading[1].viewOffset[2]))>>],
     loading |-> <<>>]

\* SVGSkin.setSVG(svgData): loadSVG is handed the callback, and the size is
\* set before setSVG returns.  When the callback runs is up to the SVG
\* renderer: within loadSVG, or when the image has loaded.
SetSVG(entry, svg, finishedInCall) ==
    [(IF finishedInCall THEN SvgOnFinish([entry EXCEPT !.loading = <<svg>>])
      ELSE [entry EXCEPT !.loading = <<svg>>])
        EXCEPT !.skin.size = <<RI(svg.image.width), RI(svg.image.height)>>]

SkinRet(op, skinId, content) ==
    [op |-> op, id |-> skinId, content |-> content, resolution |-> DefaultCostumeResolution,
     threw |-> FALSE]

\* _allSkins[skinId] = newSkin
WithSkin(skinId, entry) ==
    [id \in DOMAIN skinTable \cup {skinId} |-> IF id = skinId THEN entry ELSE skinTable[id]]

CreateBitmapSkin(bitmapData, costumeResolution) ==
    /\ nextSkinId < MaxSkins
    /\ nextSkinId' = nextSkinId + 1
    /\ skinTable' = WithSkin(nextSkinId,
                             SkinEntry(SetBitmap(NewBitmapSkin(nextSkinId), bitmapData,
                                                 costumeResolution)))
    /\ skinRet' = [SkinRet("createBitmapSkin", nextSkinId, bitmapData)
                       EXCEPT !.resolution = costumeResolution]

CreateSVGSkin(svg, finishedInCall) ==
    /\ nextSkinId < MaxSkins
    /\ nextSkinId' = nextSkinId + 1
    /\ skinTable' = WithSkin(nextSkinId,
                             SetSVG(SkinEntry(NewSVGSkin(nextSkinId)), svg, finishedInCall))
    /\ skinRet' = SkinRet("createSVGSkin", nextSkinId, svg.image)

\* updateBitmapSkin: setBitmap on a bitmap skin; else a new BitmapSkin takes
\* the id (_reskin), and the old skin object is disposed with its load.
UpdateBitmapSkin(skinId, imgData, bitmapResolution) ==
    /\ skinId \in DOMAIN skinTable
    /\ skinTable' = WithSkin(skinId,
            IF skinTable[skinId].skin.kind = "bitmap"
            THEN [skinTable[skinId] EXCEPT !.skin = SetBitmap(@, imgData, bitmapResolution)]
            ELSE SkinEntry(SetBitmap(NewBitmapSkin(skinId), imgData, bitmapResolution)))
    /\ skinRet' = [SkinRet("updateBitmapSkin", skinId, imgData) EXCEPT
                       !.resolution = bitmapResolution,
                       !.threw = /\ skinTable[skinId].skin.kind = "bitmap"
                                 /\ SetBitmapThrows(skinTable[skinId].skin, imgData)]
    /\ UNCHANGED nextSkinId

\* updateSVGSkin: setSVG on an SVG skin; else a new SVGSkin takes the id.
UpdateSVGSkin(skinId, svg, finishedInCall) ==
    /\ skinId \in DOMAIN skinTable
    /\ skinTable' = WithSkin(skinId,
            IF skinTable[skinId].skin.kind = "svg"
            THEN SetSVG(skinTable[skinId], svg, finishedInCall)
            ELSE SetSVG(SkinEntry(NewSVGSkin(skinId)), svg, finishedInCall))
    /\ skinRet' = SkinRet("updateSVGSkin", skinId, svg.image)
    /\ UNCHANGED nextSkinId

\* The image of an SVG skin has loaded: the callback of setSVG runs.
SvgLoaded(skinId) ==
    /\ skinId \in DOMAIN skinTable
    /\ skinTable[skinId].loading # <<>>
    /\ skinTable' = WithSkin(skinId, SvgOnFinish(skinTable[skinId]))
    /\ skinRet' = SkinRet("onFinish", skinId, skinTable[skinId].loading[1].image)
    /\ UNCHANGED nextSkinId

InitSkins ==
    /\ skinTable = <<>>
    /\ nextSkinId = ID_NONE + 1
    /\ skinRet = SkinRet("constructor", ID_NONE, NoAreaImage)

OnlySkins == UNCHANGED <<dlVars, silVars, drwVars, colVars, hullVars, touchVars, readyVars, pickVars, missVars, altVars>>

SkinIdInputsOfTable == 0..(MaxSkins - 1)

NextSkins ==
    \/ \E bitmapData \in SkinBitmapInputs :
            CreateBitmapSkin(bitmapData, DefaultCostumeResolution) /\ OnlySkins
    \/ \E svg \in SvgInputs, finishedInCall \in BOOLEAN :
            CreateSVGSkin(svg, finishedInCall) /\ OnlySkins
    \/ \E skinId \in SkinIdInputsOfTable, imgData \in SkinBitmapInputs :
            UpdateBitmapSkin(skinId, imgData, DefaultCostumeResolution) /\ OnlySkins
    \/ \E skinId \in SkinIdInputsOfTable, svg \in SvgInputs, finishedInCall \in BOOLEAN :
            UpdateSVGSkin(skinId, svg, finishedInCall) /\ OnlySkins
    \/ \E skinId \in SkinIdInputsOfTable : SvgLoaded(skinId) /\ OnlySkins

\* The silhouette holds the pixels of the content: the same size, and at
\* every pixel the content's alpha.
HoldsContent(sil, content) ==
    (content.width # 0 /\ content.height # 0)
    => /\ sil.hasColorData
       /\ sil.width = content.width /\ sil.height = content.height
       /\ \A x \in 0..(content.width - 1), y \in 0..(content.height - 1) :
              GetPoint(sil, x, y) = content.data[(y * content.width) + x + 1][4]

SkinCalls == {"createBitmapSkin", "createSVGSkin", "updateBitmapSkin", "updateSVGSkin"}

\* C29: setBitmap can be called any number of times on the same skin with
\* any mix of empty and non-empty bitmaps: no call throws, and after a call
\* with a non-empty bitmap the skin's size is the bitmap's size divided by the
\* resolution, it has a texture, and its silhouette holds the bitmap.
C29_SetBitmapAcceptsAnyMix ==
    skinRet.op \in {"createBitmapSkin", "updateBitmapSkin"}
    => /\ ~skinRet.threw
       /\ (skinRet.content.width # 0 /\ skinRet.content.height # 0)
          => /\ skinTable[skinRet.id].skin.hasTexture
             /\ skinTable[skinRet.id].skin.size =
                    <<R(skinRet.content.width, skinRet.resolution),
                      R(skinRet.content.height, skinRet.resolution)>>
             /\ HoldsContent(skinTable[skinRet.id].skin.silhouette, skinRet.content)

\* C20: when createBitmapSkin, createSVGSkin, updateBitmapSkin or
\* updateSVGSkin returns, the silhouette of the skin holds the pixels of the
\* content supplied.
C20_SilhouetteHoldsContentOnReturn ==
    skinRet.op \in SkinCalls
    => HoldsContent(skinTable[skinRet.id].skin.silhouette, skinRet.content)

-----------------------------------------------------------------------------
(* The 'was altered' notification: which skins the renderer listens to,    *)
(* and what RenderCanvas._skinWasAltered does to the drawables.            *)

AltSceneIds == {0, 1}
SkinKinds == {"bitmap", "svg", "pen", "text"}
UpdatableKinds == {"bitmap", "svg", "text"}

\* The skin object of the given type and id, with a 2x2 opaque content.
SkinObject(kind, skinId) ==
    [SetBitmap(NewBitmapSkin(skinId), OpaqueBitmap(2, 2), 1) EXCEPT
        !.kind = kind, !.sizeRatio = IF kind = "bitmap" THEN BitmapSkinSizeRatio ELSE SkinSizeRatio]

\* drawable._skin === skin
Wears(d, kind, skinId) == d.skin.kind = kind /\ d.skin.id = skinId

\* RenderCanvas._skinWasAltered(skin): the listener the renderer adds to a skin.
RendererSkinWasAltered(scene, kind, skinId) ==
    [id \in DOMAIN scene |->
        IF Wears(scene[id], kind, skinId) THEN SkinWasAltered(scene[id]) ELSE scene[id]]

\* skin.emit(WasAltered): the renderer's listener runs if it was ever added.
EmitWasAltered(scene, skins, skinId) ==
    IF skins[skinId].listening
    THEN RendererSkinWasAltered(scene, skins[skinId].kind, skinId)
    ELSE scene

\* A variant of the replacing branch of the update methods in which every
\* one of them adds the renderer's listener to the new skin.
ReplacementListensAlways(kind) == kind \in UpdatableKinds

\* The replacing branch of updateSVGSkin, updateBitmapSkin and
\* updateTextSkin: the first two add the renderer's listener to the new
\* skin, updateTextSkin does not.
ReplacementListens(kind) == kind \in {"svg", "bitmap"}

\* _reskin(skinId, newSkin): every drawable of the old skin gets the new one.
Reskin(scene, oldKind, newKind, skinId) ==
    [id \in DOMAIN scene |->
        IF Wears(scene[id], oldKind, skinId)
        THEN DrawableSetSkin(scene[id], SkinObject(newKind, skinId))
        ELSE scene[id]]

AltRet(op, kind, skinId, emitted) == [op |-> op, kind |-> kind, id |-> skinId, emitted |-> emitted]

\* createBitmapSkin, createSVGSkin, createPenSkin, createTextSkin: each adds
\* the renderer's listener to the new skin.
AltCreateSkin(kind) ==
    /\ altNextSkinId < MaxSkins
    /\ altNextSkinId' = altNextSkinId + 1
    /\ altSkins' = [id \in DOMAIN altSkins \cup {altNextSkinId} |->
                        IF id = altNextSkinId THEN [kind |-> kind, listening |-> TRUE]
                        ELSE altSkins[id]]
    /\ altRet' = AltRet("createSkin", kind, altNextSkinId, FALSE)
    /\ UNCHANGED altScene

\* updateBitmapSkin, updateSVGSkin, updateTextSkin on a skin the renderer
\* holds.  A skin of the same type is changed in place and emits WasAltered
\* (an SVG skin when its image has loaded); else a new skin replaces it.
AltUpdateSkin(kind, skinId) ==
    /\ skinId \in DOMAIN altSkins
    /\ IF altSkins[skinId].kind = kind
       THEN /\ altScene' = EmitWasAltered(altScene, altSkins, skinId)
            /\ altRet' = AltRet("updateSkin", kind, skinId, TRUE)
            /\ UNCHANGED altSkins
       ELSE /\ altScene' = Reskin(altScene, altSkins[skinId].kind, kind, skinId)
            /\ altSkins' = [altSkins EXCEPT ![skinId] =
                                [kind |-> kind, listening |-> ReplacementListens(kind)]]
            /\ altRet' = AltRet("updateSkin", kind, skinId, FALSE)
    /\ UNCHANGED altNextSkinId

\* updateDrawableSkinId(drawableID, skinId)
AltUpdateDrawableSkinId(drawableID, skinId) ==
    /\ skinId \in DOMAIN altSkins
    /\ altScene' = [altScene EXCEPT ![drawableID] =
                        DrawableSetSkin(@, SkinObject(altSkins[skinId].kind, skinId))]
    /\ altRet' = AltRet("updateDrawableSkinId", altSkins[skinId].kind, skinId, FALSE)
    /\ UNCHANGED <<altSkins, altNextSkinId>>

AltHullInput == <<<<R(1, 2), R(1, 2)>>, <<R(1, 2), R(3, 2)>>, <<R(3, 2), R(1, 2)>>>>

\* The reads that clear the dirty flags of a drawable that has a skin:
\* setConvexHullPoints, getBounds and updateMatrix.
AltRead(drawableID) ==
    /\ altScene[drawableID].skin.kind \in SkinKinds
    /\ altScene' = [altScene EXCEPT ![drawableID] =
                        DrawableUpdateMatrix(AfterGetBounds(
                            IF NeedsConvexHullPoints(@) THEN SetConvexHullPoints(@, AltHullInput)
                            ELSE @))]
    /\ altRet' = AltRet("read", altScene[drawableID].skin.kind, altScene[drawableID].skin.id, FALSE)
    /\ UNCHANGED <<altSkins, altNextSkinId>>

InitAltered ==
    /\ altSkins = <<>>
    /\ altNextSkinId = ID_NONE + 1
    /\ altScene = [id \in AltSceneIds |-> DrawableSetSkin(ConstructDrawable(id), NullSkin)]
    /\ altRet = AltRet("constructor", "null", ID_NONE, FALSE)

OnlyAltered == UNCHANGED <<dlVars, silVars, drwVars, colVars, hullVars, touchVars, readyVars, pickVars, missVars, skinVars>>

NextAltered ==
    \/ \E kind \in SkinKinds : AltCreateSkin(kind) /\ OnlyAltered
    \/ \E kind \in UpdatableKinds, skinId \in 0..(MaxSkins - 1) :
            AltUpdateSkin(kind, skinId) /\ OnlyAltered
    \/ \E drawableID \in AltSceneIds, skinId \in 0..(MaxSkins - 1) :
            AltUpdateDrawableSkinId(drawableID, skinId) /\ OnlyAltered
    \/ \E drawableID \in AltSceneIds : AltRead(drawableID) /\ OnlyAltered

\* Every flag Drawable._skinWasAltered sets is set.
AllMarkedDirty(d) ==
    /\ d.transformDirty /\ d.inverseTransformDirty /\ d.convexHullDirty /\ d.AABBDirty
    /\ d.rotationCenterDirty /\ d.skinScaleDirty

\* C21: when a skin the renderer holds emits WasAltered, every drawable
\* whose skin is that skin has its transform, inverse-transform, convex-hull,
\* AABB, rotation-centre and skin-scale dirty flags set, and no other
\* drawable changes, whichever operation installed the skin.
C21_AlteredSkinMarksItsDrawables ==
    [][altRet'.emitted
        => \A id \in AltSceneIds :
              IF Wears(altScene[id], altRet'.kind, altRet'.id)
              THEN AllMarkedDirty(altScene'[id])
              ELSE altScene'[id] = altScene[id]]_vars

-----------------------------------------------------------------------------
(* The specifications: each runs one component and leaves the others as    *)
(* constructed.                                                            *)

InitAll == InitDrawList /\ InitSilhouette /\ InitTransform /\ InitColor /\ InitHull /\ InitTouch /\ InitReady /\ InitPick /\ InitMissing /\ InitSkins /\ InitAltered

SpecDrawList == InitAll /\ [][NextDrawList]_vars

SpecSilhouette == InitAll /\ [][NextSilhouette]_vars

SpecTransform == InitAll /\ [][NextTransform]_vars

SpecColor == InitAll /\ [][NextColor]_vars

SpecHull == InitAll /\ [][NextHull]_vars

SpecTouch == InitAll /\ [][NextTouch]_vars

SpecReady == InitAll /\ [][NextReady]_vars

SpecPick == InitAll /\ [][NextPick]_vars

SpecMissing == InitAll /\ [][NextMissing]_vars

SpecSkins == InitAll /\ [][NextSkins]_vars

SpecAltered == InitAll /\ [][NextAltered]_vars

=============================================================================
